---- MODULE Spec2Model ----
(***************************************************************************)
(* A state-machine model of the CHIMERA VPU adaptive dispatcher:           *)
(* VPUCore::execute_task and the pillars it drives (Synapse, Cortex,       *)
(* Orchestrator, Cerebellum, FeedbackLoop, TaskGraphOrchestrator), plus    *)
(* the white-box entry points the end-to-end test uses.                    *)
(*                                                                         *)
(* Every C++ double is a fixed-point integer counting 1/SCALE units, so    *)
(* 200.0 is 20000 and 0.15 is 15.  Products and quotients are truncated    *)
(* toward zero.                                                            *)
(***************************************************************************)
EXTENDS Integers, Sequences, FiniteSets, TLC

SCALE == 100

\* ------------------------------------------------------------- arithmetic

Abs(a) == IF a < 0 THEN -a ELSE a

Max(a, b) == IF a < b THEN b ELSE a

\* a / b for b > 0, truncated toward zero
Div(a, b) == IF a >= 0 THEN a \div b ELSE -((-a) \div b)

\* product of two fixed-point numbers
Mul(a, b) == Div(a * b, SCALE)

\* std::string::find(sub) != npos
Contains(s, sub) ==
    \E i \in 1..(Len(s) - Len(sub) + 1) : SubSeq(s, i, i + Len(sub) - 1) = sub

\* std::map::count(key) != 0
Has(m, key) == key \in DOMAIN m

\* ------------------------------------------- HardwareProfile, KernelLibrary

\* VPUCore::initialize_beliefs
InitialBeliefs ==
    [ base_operational_costs |->
        [ k \in {"CONV_DIRECT", "ELEMENT_WISE_MULTIPLY", "GEMM_NAIVE",
                 "GEMM_FLUX_ADAPTIVE", "SAXPY_STANDARD", "EXECUTE_JIT_SAXPY"} |->
            CASE k = "CONV_DIRECT" -> 200 * SCALE
              [] k = "ELEMENT_WISE_MULTIPLY" -> 50 * SCALE
              [] k = "GEMM_NAIVE" -> 500 * SCALE
              [] k = "GEMM_FLUX_ADAPTIVE" -> 450 * SCALE
              [] k = "SAXPY_STANDARD" -> 100 * SCALE
              [] k = "EXECUTE_JIT_SAXPY" -> 70 * SCALE ],
      transform_costs |->
        [ k \in {"FFT_FORWARD", "FFT_INVERSE", "JIT_COMPILE_SAXPY"} |->
            CASE k = "FFT_FORWARD" -> 300 * SCALE
              [] k = "FFT_INVERSE" -> 280 * SCALE
              [] k = "JIT_COMPILE_SAXPY" -> 1000 * SCALE ],
      flux_sensitivities |->
        [ k \in {"lambda_Conv_Amp", "lambda_Conv_Freq", "lambda_Sparsity",
                 "lambda_SAXPY_generic", "SAXPY_STANDARD_lambda_hw_combined",
                 "EXECUTE_JIT_SAXPY_lambda_hw_combined",
                 "GEMM_NAIVE_lambda_hw_combined",
                 "GEMM_FLUX_ADAPTIVE_lambda_hw_combined",
                 "CONV_DIRECT_lambda_hw_combined"} |->
            CASE k = "lambda_Conv_Amp" -> 100
              [] k = "lambda_Conv_Freq" -> 80
              [] k = "lambda_Sparsity" -> 15000
              [] k = "lambda_SAXPY_generic" -> 50
              [] k = "SAXPY_STANDARD_lambda_hw_combined" -> 10
              [] k = "EXECUTE_JIT_SAXPY_lambda_hw_combined" -> 5
              [] k = "GEMM_NAIVE_lambda_hw_combined" -> 20
              [] k = "GEMM_FLUX_ADAPTIVE_lambda_hw_combined" -> 15
              [] k = "CONV_DIRECT_lambda_hw_combined" -> 25 ] ]

\* VPUCore::initialize_hal: the kernels registered at start-up
InitialKernels == {"SAXPY_STANDARD", "GEMM_NAIVE", "FFT_FORWARD"}

\* ------------------------------------------------------ Pillar 3: Orchestrator

Plan(name, steps) ==
    [chosen_path_name |-> name, predicted_holistic_flux |-> 0, steps |-> steps]

\* Orchestrator::generate_candidate_paths
generate_candidate_paths(task_type) ==
    CASE task_type = "CONVOLUTION" ->
           << Plan("Time Domain (Direct)", <<"CONV_DIRECT">>),
              Plan("Frequency Domain (FFT)",
                   <<"FFT_FORWARD", "ELEMENT_WISE_MULTIPLY", "FFT_INVERSE">>) >>
      [] task_type = "GEMM" ->
           << Plan("Naive GEMM", <<"GEMM_NAIVE">>),
              Plan("Flux-Adaptive GEMM", <<"GEMM_FLUX_ADAPTIVE">>) >>
      [] task_type = "SAXPY" ->
           << Plan("Standard SAXPY", <<"SAXPY_STANDARD">>),
              Plan("JIT Compiled SAXPY",
                   <<"JIT_COMPILE_SAXPY", "EXECUTE_JIT_SAXPY">>) >>
      [] OTHER -> << >>

\* generate_paths_with_llm answering with the hardcoded plan of its comment
generate_paths_with_llm_suggesting(task_type) ==
    IF task_type = "CONVOLUTION"
    THEN << Plan("LLM Suggested Path (CONV)", <<"LLM_OP_CONV">>) >>
    ELSE << >>

\* Orchestrator::generate_paths_with_llm: the stub returns no plan
generate_paths_with_llm(task_type) == << >>

\* f(ACW, lambda) of simulate_flux_cost: the data-dependent part of one step
dynamic_cost(hw, op, profile) ==
    LET s == hw.flux_sensitivities IN
    CASE op = "CONV_DIRECT" ->
           IF Has(s, "lambda_Conv_Amp") /\ Has(s, "lambda_Conv_Freq")
           THEN Mul(profile.amplitude_flux, s["lambda_Conv_Amp"])
                + Mul(profile.frequency_flux, s["lambda_Conv_Freq"])
           ELSE 0
      [] op \in {"GEMM_NAIVE", "GEMM_FLUX_ADAPTIVE"} ->
           IF Has(s, "lambda_Sparsity")
           THEN Mul(SCALE - profile.sparsity_ratio, s["lambda_Sparsity"])
           ELSE 0
      [] op = "SAXPY_STANDARD" ->
           IF Has(s, "lambda_SAXPY_generic")
           THEN Mul(profile.amplitude_flux, s["lambda_SAXPY_generic"])
           ELSE 0
      [] op = "EXECUTE_JIT_SAXPY" ->
           IF Has(s, "lambda_SAXPY_generic")
           THEN Mul(Mul(profile.amplitude_flux, s["lambda_SAXPY_generic"]), SCALE \div 2)
           ELSE 0
      [] OTHER -> 0

\* the contribution of one step to total_flux
step_flux(hw, op, profile) ==
    (IF Has(hw.transform_costs, op) THEN hw.transform_costs[op] ELSE 0)
    + (IF Has(hw.base_operational_costs, op)
       THEN hw.base_operational_costs[op] + dynamic_cost(hw, op, profile)
       ELSE 0)

RECURSIVE total_flux(_, _, _)
total_flux(hw, steps, profile) ==
    IF steps = << >> THEN 0
    ELSE step_flux(hw, Head(steps), profile) + total_flux(hw, Tail(steps), profile)

\* some step name contains one of the two markers
plan_uses(steps, m1, m2) ==
    \E i \in 1..Len(steps) : Contains(steps[i], m1) \/ Contains(steps[i], m2)

TEMP_THRESHOLD_HIGH == 85 * SCALE
TEMP_MULTIPLIER_HIGH == 150
POWER_THRESHOLD_WARN == 100 * SCALE
\* POWER_SCALE_FACTOR = 0.005, kept in thousandths
POWER_SCALE_FACTOR_MILLI == 5
NET_LATENCY_THRESHOLD_MS == 100 * SCALE
NET_LATENCY_MULTIPLIER == 120
IO_THROUGHPUT_LOW_MBPS == 50 * SCALE
IO_THROUGHPUT_MULTIPLIER == 115

\* the IoT adjustments of simulate_flux_cost, applied in the source's order
cost_multiplier(steps, profile) ==
    LET m1 == IF profile.temperature_celsius > TEMP_THRESHOLD_HIGH
              THEN Mul(SCALE, TEMP_MULTIPLIER_HIGH) ELSE SCALE
        m2 == IF profile.power_draw_watts > POWER_THRESHOLD_WARN
              THEN Mul(m1, SCALE + Div((profile.power_draw_watts - POWER_THRESHOLD_WARN)
                                       * POWER_SCALE_FACTOR_MILLI, 1000))
              ELSE m1
        m3 == IF plan_uses(steps, "NETWORK_", "REMOTE_")
                 /\ profile.network_latency_ms > NET_LATENCY_THRESHOLD_MS
              THEN Mul(m2, NET_LATENCY_MULTIPLIER) ELSE m2
        m4 == IF plan_uses(steps, "DISK_", "LOAD_")
                 /\ profile.io_throughput_mbps < IO_THROUGHPUT_LOW_MBPS
                 /\ profile.io_throughput_mbps > 0
              THEN Mul(m3, IO_THROUGHPUT_MULTIPLIER) ELSE m3
    IN IF profile.data_quality_score > 0 /\ profile.data_quality_score < SCALE
       THEN Div(m4 * SCALE, profile.data_quality_score)
       ELSE IF profile.data_quality_score <= 0 THEN m4 * 10 ELSE m4

\* Orchestrator::simulate_flux_cost
simulate_flux_cost(hw, plan, profile) ==
    Mul(total_flux(hw, plan.steps, profile), cost_multiplier(plan.steps, profile))

\* the candidates with their predicted cost filled in, in generation order
simulated(hw, candidates, profile) ==
    [ i \in 1..Len(candidates) |->
        [ candidates[i] EXCEPT
            !.predicted_holistic_flux = simulate_flux_cost(hw, candidates[i], profile) ] ]

\* the candidates left in generation order
sorted_by_flux_unsorted(cands) == {cands}

\* std::sort with the comparator a.flux < b.flux: every arrangement of the
\* candidates in which no plan is followed by a strictly cheaper one (the
\* order of equal-cost plans is left open by std::sort)
sorted_by_flux(cands) ==
    { s \in { [ i \in 1..Len(cands) |-> cands[p[i]] ] : p \in Permutations(1..Len(cands)) } :
        \A i \in 1..Len(s) : \A j \in 1..Len(s) :
            i < j => ~(s[j].predicted_holistic_flux < s[i].predicted_holistic_flux) }

\* the candidate list before costing: LLM paths when enabled and non-empty,
\* else the built-in table
candidate_paths(use_llm, task_type) ==
    IF use_llm /\ generate_paths_with_llm(task_type) # << >>
    THEN generate_paths_with_llm(task_type)
    ELSE generate_candidate_paths(task_type)

\* Orchestrator::determine_optimal_path: the set of lists it may return;
\* empty exactly when it throws "No candidate paths found"
determine_optimal_path(hw, use_llm, ctx) ==
    IF candidate_paths(use_llm, ctx.task_type) = << >> THEN {}
    ELSE sorted_by_flux(simulated(hw, candidate_paths(use_llm, ctx.task_type), ctx.profile))

\* ---------------------------------------------------------- Pillar 1: Synapse

\* Pillar1_Synapse::validate_task
validate_task(task) ==
    /\ task.task_type # ""
    /\ CASE task.kernel_type = "FUNCTION_POINTER" ->
              /\ task.kernel_set
              /\ (task.num_elements > 0 => task.data_out)
         [] task.kernel_type = "WASM_BINARY" ->
              /\ task.kernel_set
              /\ task.kernel_size # 0
         [] OTHER -> FALSE

\* submit_task with the validation left out
submit_task_unvalidated(task) == TRUE

\* Pillar1_Synapse::submit_task
submit_task(task) ==
    /\ validate_task(task)
    /\ CASE task.kernel_type = "FUNCTION_POINTER" -> task.kernel_set
         [] task.kernel_type = "WASM_BINARY" -> task.kernel_set /\ task.kernel_size # 0
         [] OTHER -> FALSE

\* ----------------------------------------------------------- Pillar 2: Cortex

\* a null pointer, and a pointer to the doubles v
NullBuffer == [ptr |-> FALSE, v |-> << >>]

Buffer(v) == [ptr |-> TRUE, v |-> v]

RECURSIVE sum_abs_diff(_, _)
sum_abs_diff(data, n) ==
    IF n < 2 THEN 0 ELSE sum_abs_diff(data, n - 1) + Abs(data[n] - data[n - 1])

\* the amplitude flux of Cortex::profileOmni over the first n doubles
amplitude_flux(data, n) ==
    IF n > 1 THEN Div(sum_abs_diff(data, n) * SCALE, n - 1) ELSE 0

\* the spectral centroid of Cortex::profileOmni: FFTW computes the spectrum, so
\* the model leaves the value open between 0 and the Nyquist frequency 0.5;
\* it is 0 below two samples and for an all-zero signal
frequency_flux_values(data, n) ==
    IF n >= 2 /\ \E i \in 1..n : data[i] # 0 THEN {0, SCALE \div 2} ELSE {0}

\* the number of set bits of the IEEE-754 double holding the integer x
PopcountDouble(x) ==
    CASE x = 0 -> 0
      [] x = 100 -> 5
      [] x = -100 -> 6
      [] x \in {1} -> 10
      [] x \in {2} -> 1
      [] x \in {3, 4, 8} -> 2
      [] x \in {5, 6, 9, 10} -> 3
      [] x = 7 -> 4

RECURSIVE hamming_weight(_, _)
hamming_weight(data, doubles) ==
    IF doubles = 0 THEN 0
    ELSE hamming_weight(data, doubles - 1) + PopcountDouble(data[doubles])

\* Cortex::calculate_hamming_weight_for_profile over num_bytes of data_in_a
calculate_hamming_weight_for_profile(buf, num_bytes) ==
    IF ~buf.ptr \/ num_bytes = 0
    THEN [hamming_weight |-> 0, sparsity_ratio |-> SCALE]
    ELSE LET hw == hamming_weight(buf.v, num_bytes \div 8) IN
         [hamming_weight |-> hw,
          sparsity_ratio |-> SCALE - Div(hw * SCALE, num_bytes * 8)]

\* the dummy sensor readings Cortex::analyze fills in
DefaultIot ==
    [power_draw_watts |-> 7550, temperature_celsius |-> 6520,
     network_latency_ms |-> 1530, network_bandwidth_mbps |-> 98000,
     io_throughput_mbps |-> 25000, data_quality_score |-> 95]

\* no override staged (next_iot_override_ == nullptr)
NoOverride == [set |-> FALSE, iot |-> DefaultIot]

\* Cortex::analyze: the profiles it may return (one per spectral centroid)
analyze(task, override) ==
    LET profiled == task.data_in_a.ptr /\ task.num_elements > 0
        af == IF profiled THEN amplitude_flux(task.data_in_a.v, task.num_elements) ELSE 0
        ffs == IF profiled THEN frequency_flux_values(task.data_in_a.v, task.num_elements)
               ELSE {0}
        hw == IF task.data_in_a.ptr /\ task.data_in_a_size_bytes > 0
              THEN calculate_hamming_weight_for_profile(task.data_in_a,
                                                        task.data_in_a_size_bytes)
              ELSE [hamming_weight |-> 0, sparsity_ratio |-> SCALE]
        iot == IF override.set THEN override.iot ELSE DefaultIot
    IN { [ task_type |-> task.task_type,
           profile |-> [ amplitude_flux |-> af,
                         frequency_flux |-> ff,
                         hamming_weight |-> hw.hamming_weight,
                         sparsity_ratio |-> hw.sparsity_ratio,
                         power_draw_watts |-> iot.power_draw_watts,
                         temperature_celsius |-> iot.temperature_celsius,
                         network_latency_ms |-> iot.network_latency_ms,
                         network_bandwidth_mbps |-> iot.network_bandwidth_mbps,
                         io_throughput_mbps |-> iot.io_throughput_mbps,
                         data_quality_score |-> iot.data_quality_score ] ] : ff \in ffs }

\* ------------------------------------------------------- Pillar 4: Cerebellum

ZeroReport == [cycle_cost |-> 0, hw_in_cost |-> 0, hw_out_cost |-> 0]

\* static_cast<uint64_t>(n * log2(n) * 5) of the FFT_FORWARD kernel
fft_cycle_cost(n) ==
    CASE n <= 1 -> 0
      [] n = 2 -> 10
      [] n = 3 -> 23
      [] n = 4 -> 40
      [] n = 5 -> 58
      [] n = 6 -> 77
      [] n = 7 -> 98
      [] n = 8 -> 120
      [] n = 9 -> 142
      [] n = 10 -> 166

\* the FluxReport of a registered kernel run on the task; h holds the Hamming
\* weights of the float view of its buffers
kernel_report(op, task, h) ==
    CASE op = "SAXPY_STANDARD" ->
           IF ~task.data_in_a.ptr \/ ~task.data_out \/ task.num_elements = 0
           THEN ZeroReport
           ELSE [cycle_cost |-> task.num_elements * 2,
                 hw_in_cost |-> h.hw_in_cost, hw_out_cost |-> h.hw_out_cost]
      [] op = "GEMM_NAIVE" ->
           IF ~task.data_in_a.ptr \/ ~task.data_in_b \/ ~task.data_out \/ ~task.has_mnk
           THEN ZeroReport
           ELSE [cycle_cost |-> task.M * task.N * task.K * 2,
                 hw_in_cost |-> h.hw_in_cost, hw_out_cost |-> h.hw_out_cost]
      [] op = "FFT_FORWARD" ->
           IF ~task.data_in_a.ptr \/ ~task.data_out \/ task.num_elements = 0
           THEN ZeroReport
           ELSE [cycle_cost |-> fft_cycle_cost(task.num_elements),
                 hw_in_cost |-> h.hw_in_cost, hw_out_cost |-> h.hw_out_cost]
      \* a fused placeholder does no work
      [] OTHER -> ZeroReport

\* the nullary kernel FluxJITEngine::compile_saxpy_for_data hands back, run
jit_kernel_report(task, h) ==
    IF ~task.data_in_a.ptr \/ ~task.data_out \/ task.num_elements = 0
    THEN ZeroReport
    ELSE [cycle_cost |-> task.num_elements * 2,
          hw_in_cost |-> h.hw_in_cost, hw_out_cost |-> h.hw_out_cost]

\* one pass of the step loop of Cerebellum::execute from step i on; acc is
\* the running totals, staged says whether last_jit_compiled_kernel_ is set
RECURSIVE run_steps(_, _, _, _, _, _, _)
run_steps(lib, steps, task, hs, i, acc, staged) ==
    IF i > Len(steps)
    THEN [error |-> "", failed_step |-> 0, totals |-> acc, staged |-> staged]
    ELSE LET op == steps[i]
             add(r) == [cycle_cost |-> acc.cycle_cost + r.cycle_cost,
                        hw_in_cost |-> acc.hw_in_cost + r.hw_in_cost,
                        hw_out_cost |-> acc.hw_out_cost + r.hw_out_cost]
         IN CASE op = "JIT_COMPILE_SAXPY" ->
                   run_steps(lib, steps, task, hs, i + 1, add(ZeroReport), TRUE)
              [] op = "EXECUTE_JIT_SAXPY" ->
                   IF staged
                   THEN run_steps(lib, steps, task, hs, i + 1,
                                  add(jit_kernel_report(task, hs[i])), staged)
                   ELSE [error |-> "JITPrecondition", failed_step |-> i,
                         totals |-> acc, staged |-> staged]
              [] OTHER ->
                   IF op \in lib
                   THEN run_steps(lib, steps, task, hs, i + 1,
                                  add(kernel_report(op, task, hs[i])), staged)
                   ELSE [error |-> "KernelMissing", failed_step |-> i,
                         totals |-> acc, staged |-> staged]

\* execute taking the cycle cost alone for the holistic flux
execute_cycles_only(lib, plan, task, hs) ==
    LET r == run_steps(lib, plan.steps, task, hs, 1, ZeroReport, FALSE) IN
    [ error |-> r.error,
      failed_step |-> r.failed_step,
      staged |-> r.staged,
      record |-> [ observed_cycle_cost |-> r.totals.cycle_cost,
                   observed_hw_in_cost |-> r.totals.hw_in_cost,
                   observed_hw_out_cost |-> r.totals.hw_out_cost,
                   observed_holistic_flux |-> r.totals.cycle_cost * SCALE ] ]

\* execute with the exception of a failed step swallowed
execute_swallowing(lib, plan, task, hs) ==
    LET r == run_steps(lib, plan.steps, task, hs, 1, ZeroReport, FALSE) IN
    [ error |-> "",
      failed_step |-> r.failed_step,
      staged |-> r.staged,
      record |-> [ observed_cycle_cost |-> r.totals.cycle_cost,
                   observed_hw_in_cost |-> r.totals.hw_in_cost,
                   observed_hw_out_cost |-> r.totals.hw_out_cost,
                   observed_holistic_flux |->
                       (r.totals.cycle_cost + r.totals.hw_in_cost
                        + r.totals.hw_out_cost) * SCALE ] ]

\* Cerebellum::execute: error is "" and record is the ActualPerformanceRecord,
\* or error names the exception thrown at failed_step
execute(lib, plan, task, hs) ==
    LET r == run_steps(lib, plan.steps, task, hs, 1, ZeroReport, FALSE) IN
    [ error |-> r.error,
      failed_step |-> r.failed_step,
      staged |-> r.staged,
      record |-> [ observed_cycle_cost |-> r.totals.cycle_cost,
                   observed_hw_in_cost |-> r.totals.hw_in_cost,
                   observed_hw_out_cost |-> r.totals.hw_out_cost,
                   observed_holistic_flux |->
                       (r.totals.cycle_cost + r.totals.hw_in_cost
                        + r.totals.hw_out_cost) * SCALE ] ]

EmptyRecord ==
    [observed_cycle_cost |-> 0, observed_hw_in_cost |-> 0,
     observed_hw_out_cost |-> 0, observed_holistic_flux |-> 0]

\* ----------------------------------------------------- Pillar 5: FeedbackLoop

QUARK_THRESHOLD == 15
LEARNING_RATE == 10
LEARNING_RATE_BASE_COST == 5
DEFAULT_EXPLORATION_RATE == 10

\* m with the value at an existing key replaced
Put(m, key, val) == [m EXCEPT ![key] = val]

\* the predicted == 0, observed != 0 branch of learn_from_feedback
learn_predicted_zero(hw, ctx, observed) ==
    IF ctx.transform_key # "" /\ Has(hw.transform_costs, ctx.transform_key)
    THEN [hw EXCEPT !.transform_costs = Put(@, ctx.transform_key, observed)]
    ELSE IF ctx.operation_key # "" /\ Has(hw.flux_sensitivities, ctx.operation_key)
    THEN [hw EXCEPT !.flux_sensitivities =
             Put(@, ctx.operation_key,
                 Max(@[ctx.operation_key], 1) + Mul(observed, LEARNING_RATE))]
    ELSE hw

\* update_transform_cost writing through operator[], which inserts a key the
\* map does not hold
update_transform_cost_inserting(hw, ctx, predicted, observed) ==
    IF ctx.transform_key = "" THEN hw
    ELSE LET costs == hw.transform_costs
             old == IF Has(costs, ctx.transform_key) THEN costs[ctx.transform_key] ELSE 0
             belief == old + Mul(observed - predicted, LEARNING_RATE)
         IN [hw EXCEPT !.transform_costs =
                [ k \in DOMAIN costs \cup {ctx.transform_key} |->
                    IF k = ctx.transform_key
                    THEN (IF belief < SCALE THEN SCALE ELSE belief)
                    ELSE costs[k] ]]

\* step 1 of the quark update: the transform cost
update_transform_cost(hw, ctx, predicted, observed) ==
    IF ctx.transform_key # "" /\ Has(hw.transform_costs, ctx.transform_key)
    THEN LET belief == hw.transform_costs[ctx.transform_key]
                       + Mul(observed - predicted, LEARNING_RATE)
         IN [hw EXCEPT !.transform_costs =
                Put(@, ctx.transform_key, IF belief < SCALE THEN SCALE ELSE belief)]
    ELSE hw

\* the base cost updated only when no transform cost was
update_base_cost_exclusive(hw, ctx, deviation) ==
    IF ctx.transform_key # "" /\ Has(hw.transform_costs, ctx.transform_key) THEN hw
    ELSE IF ctx.main_operation_name # ""
            /\ Has(hw.base_operational_costs, ctx.main_operation_name)
    THEN LET old == hw.base_operational_costs[ctx.main_operation_name]
             belief == old + Mul(Mul(old, deviation), LEARNING_RATE_BASE_COST)
         IN [hw EXCEPT !.base_operational_costs =
                Put(@, ctx.main_operation_name, IF belief < SCALE THEN SCALE ELSE belief)]
    ELSE hw

\* step 2 of the quark update: the base operational cost
update_base_cost(hw, ctx, deviation) ==
    IF ctx.main_operation_name # ""
       /\ Has(hw.base_operational_costs, ctx.main_operation_name)
    THEN LET old == hw.base_operational_costs[ctx.main_operation_name]
             belief == old + Mul(Mul(old, deviation), LEARNING_RATE_BASE_COST)
         IN [hw EXCEPT !.base_operational_costs =
                Put(@, ctx.main_operation_name, IF belief < SCALE THEN SCALE ELSE belief)]
    ELSE hw

\* step 3 of the quark update: the flux sensitivity
update_sensitivity(hw, ctx, deviation) ==
    IF ctx.operation_key # "" /\ Has(hw.flux_sensitivities, ctx.operation_key)
    THEN LET belief == Mul(hw.flux_sensitivities[ctx.operation_key],
                           SCALE + Mul(deviation, LEARNING_RATE))
         IN [hw EXCEPT !.flux_sensitivities =
                Put(@, ctx.operation_key, IF belief < 0 THEN 0 ELSE belief)]
    ELSE hw

\* (observed - predicted) / predicted, for predicted # 0
relative_deviation(predicted, observed) ==
    IF predicted > 0 THEN Div((observed - predicted) * SCALE, predicted)
    ELSE -Div((observed - predicted) * SCALE, -predicted)

\* learn_from_feedback without the stability threshold
learn_from_feedback_no_threshold(hw, ctx, predicted, observed) ==
    IF predicted = 0 /\ observed = 0 THEN hw
    ELSE IF predicted = 0 THEN learn_predicted_zero(hw, ctx, observed)
    ELSE LET deviation == relative_deviation(predicted, observed) IN
         update_sensitivity(
             update_base_cost(
                 update_transform_cost(hw, ctx, predicted, observed),
                 ctx, deviation),
             ctx, deviation)

\* FeedbackLoop::learn_from_feedback: the HardwareProfile it leaves
learn_from_feedback(hw, ctx, predicted, observed) ==
    IF predicted = 0 /\ observed = 0 THEN hw
    ELSE IF predicted = 0 THEN learn_predicted_zero(hw, ctx, observed)
    ELSE LET deviation == relative_deviation(predicted, observed) IN
         IF Abs(deviation) < QUARK_THRESHOLD THEN hw
         ELSE update_sensitivity(
                  update_base_cost(
                      update_transform_cost(hw, ctx, predicted, observed),
                      ctx, deviation),
                  ctx, deviation)

\* should_explore with <= in place of <
should_explore_inclusive(random_value, exploration_rate) == random_value <= exploration_rate

\* FeedbackLoop::should_explore, for the drawn random_value
should_explore(random_value, exploration_rate) == random_value < exploration_rate

\* ------------------------------------------ the LearningContext of execute_task

\* the first step of the plan that is a GEMM kernel, "" when there is none
first_gemm_step(steps) ==
    IF \E i \in 1..Len(steps) : steps[i] \in {"GEMM_NAIVE", "GEMM_FLUX_ADAPTIVE"}
    THEN steps[CHOOSE i \in 1..Len(steps) :
                 /\ steps[i] \in {"GEMM_NAIVE", "GEMM_FLUX_ADAPTIVE"}
                 /\ \A j \in 1..(i - 1) : steps[j] \notin {"GEMM_NAIVE", "GEMM_FLUX_ADAPTIVE"}]
    ELSE ""

\* the LearningContext without the exploration marker
build_learning_context_unmarked(chosen_plan, explored, task_type) ==
    [ path_name |-> chosen_plan.chosen_path_name, transform_key |-> "",
      main_operation_name |-> "", operation_key |-> "" ]

\* the LearningContext with the task-type table applied to every plan, the
\* transform-focused ones included
build_learning_context_table_always(chosen_plan, explored, task_type) ==
    LET name == chosen_plan.chosen_path_name
        fft == Contains(name, "FFT")
        jit == ~fft /\ Contains(name, "JIT Compiled SAXPY")
        c0 == [ path_name |-> IF explored THEN name \o " (Exploratory)" ELSE name,
                transform_key |-> IF fft THEN "TRANSFORM_TIME_TO_FREQ"
                                  ELSE IF jit THEN "TRANSFORM_JIT_COMPILE_SAXPY" ELSE "",
                main_operation_name |-> "", operation_key |-> "" ]
    IN CASE task_type = "CONVOLUTION" ->
              [c0 EXCEPT !.main_operation_name = "CONV_DIRECT",
                         !.operation_key = "lambda_Conv_Amp"]
         [] task_type = "GEMM" ->
              [c0 EXCEPT !.main_operation_name = first_gemm_step(chosen_plan.steps),
                         !.operation_key = "lambda_Sparsity"]
         [] task_type = "SAXPY" ->
              [c0 EXCEPT !.main_operation_name = "SAXPY_STANDARD",
                         !.operation_key = "lambda_SAXPY_generic"]
         [] OTHER -> c0

\* VPUCore::execute_task, step 4: the context handed to learn_from_feedback
build_learning_context(chosen_plan, explored, task_type) ==
    LET name == chosen_plan.chosen_path_name
        fft == Contains(name, "FFT")
        jit == ~fft /\ Contains(name, "JIT Compiled SAXPY")
        is_transform_focused == fft \/ jit
        c0 == [ path_name |-> IF explored THEN name \o " (Exploratory)" ELSE name,
                transform_key |-> IF fft THEN "TRANSFORM_TIME_TO_FREQ"
                                  ELSE IF jit THEN "TRANSFORM_JIT_COMPILE_SAXPY" ELSE "",
                main_operation_name |-> IF jit THEN "EXECUTE_JIT_SAXPY" ELSE "",
                operation_key |-> IF jit THEN "lambda_SAXPY_generic" ELSE "" ]
    IN IF ~is_transform_focused \/ c0.main_operation_name # ""
       THEN CASE task_type = "CONVOLUTION" ->
                   IF ~is_transform_focused
                   THEN [c0 EXCEPT !.main_operation_name = "CONV_DIRECT",
                                   !.operation_key = "lambda_Conv_Amp"]
                   ELSE c0
              [] task_type = "GEMM" ->
                   [c0 EXCEPT !.main_operation_name =
                                  IF first_gemm_step(chosen_plan.steps) # ""
                                  THEN first_gemm_step(chosen_plan.steps) ELSE @,
                              !.operation_key = "lambda_Sparsity"]
              [] task_type = "SAXPY" ->
                   IF ~is_transform_focused
                   THEN [c0 EXCEPT !.main_operation_name = "SAXPY_STANDARD",
                                   !.operation_key = "lambda_SAXPY_generic"]
                   ELSE c0
              [] OTHER -> c0
       ELSE c0

\* ------------------------------------------- Pillar 6: TaskGraphOrchestrator

DEFAULT_FUSION_THRESHOLD == 10
DEFAULT_ANALYSIS_INTERVAL == 5

\* the characters of operation names, in char order
Alphabet == "0123456789ABCDEFGHIJKLMNOPQRSTUVWXYZ_abcdefghijklmnopqrstuvwxyz"

CharRank(c) == CHOOSE i \in 1..Len(Alphabet) : SubSeq(Alphabet, i, i) = c

\* std::string operator< from position i on
RECURSIVE StrLessFrom(_, _, _)
StrLessFrom(a, b, i) ==
    IF i > Len(b) THEN FALSE
    ELSE IF i > Len(a) THEN TRUE
    ELSE LET ca == CharRank(SubSeq(a, i, i))
             cb == CharRank(SubSeq(b, i, i))
         IN IF ca # cb THEN ca < cb ELSE StrLessFrom(a, b, i + 1)

StrLess(a, b) == StrLessFrom(a, b, 1)

\* std::pair<std::string, std::string> operator<
PairLess(p, q) == StrLess(p[1], q[1]) \/ (p[1] = q[1] /\ StrLess(p[2], q[2]))

\* the (plan, position) places of plan_history_ that find_frequent_sequences counts
counted_places(hw, history) ==
    { pl \in UNION { { <<p, i>> : i \in 1..(Len(history[p].steps) - 1) } :
                     p \in 1..Len(history) } :
        LET steps == history[pl[1]].steps
            i == pl[2]
        IN /\ Len(steps) >= 2
           /\ ~( /\ ( \/ Contains(steps[i], "JIT_") \/ Contains(steps[i + 1], "JIT_")
                      \/ Contains(steps[i], "EXECUTE_")
                      \/ Contains(steps[i + 1], "EXECUTE_") )
                 /\ ( \/ ~Has(hw.base_operational_costs, steps[i])
                      \/ ~Has(hw.base_operational_costs, steps[i + 1]) ) )
           /\ steps[i] # steps[i + 1] }

\* TaskGraphOrchestrator::find_frequent_sequences: the pairs counted and
\* how often each occurs
find_frequent_sequences(hw, history) ==
    IF Len(history) < 2 /\ (history = << >> \/ Len(history[1].steps) < 2)
    THEN << >>
    ELSE LET places == counted_places(hw, history)
             pair(pl) == << history[pl[1]].steps[pl[2]], history[pl[1]].steps[pl[2] + 1] >>
         IN [ pr \in { pair(pl) : pl \in places } |->
                Cardinality({ pl \in places : pair(pl) = pr }) ]

fused_name(op1_name, op2_name) == "FUSED_" \o op1_name \o "_" \o op2_name

\* create_fused_kernel without the "already exists" return
create_fused_kernel_overwrite(st, op1_name, op2_name) ==
    LET new_kernel_name == fused_name(op1_name, op2_name)
        base == st.hw.base_operational_costs
        cost_op1 == IF Has(base, op1_name) THEN base[op1_name] ELSE 100 * SCALE
        cost_op2 == IF Has(base, op2_name) THEN base[op2_name] ELSE 100 * SCALE
        estimated_fused_cost == Div(8 * (cost_op1 + cost_op2), 10)
    IN [ lib |-> st.lib \cup {new_kernel_name},
         hw |-> [ st.hw EXCEPT !.base_operational_costs =
                    [ k \in DOMAIN base \cup {new_kernel_name} |->
                        IF k = new_kernel_name THEN estimated_fused_cost
                        ELSE base[k] ] ] ]

\* create_fused_kernel registering the kernel without a cost entry
create_fused_kernel_unpriced(st, op1_name, op2_name) ==
    LET new_kernel_name == fused_name(op1_name, op2_name)
    IN IF new_kernel_name \in st.lib THEN st
       ELSE [ lib |-> st.lib \cup {new_kernel_name}, hw |-> st.hw ]

\* create_fused_kernel without the 20 percent gain
create_fused_kernel_no_gain(st, op1_name, op2_name) ==
    LET new_kernel_name == fused_name(op1_name, op2_name)
        base == st.hw.base_operational_costs
        cost_op1 == IF Has(base, op1_name) THEN base[op1_name] ELSE 100 * SCALE
        cost_op2 == IF Has(base, op2_name) THEN base[op2_name] ELSE 100 * SCALE
    IN IF new_kernel_name \in st.lib THEN st
       ELSE [ lib |-> st.lib \cup {new_kernel_name},
              hw |-> [ st.hw EXCEPT !.base_operational_costs =
                         [ k \in DOMAIN base \cup {new_kernel_name} |->
                             IF k = new_kernel_name THEN cost_op1 + cost_op2
                             ELSE base[k] ] ] ]

\* TaskGraphOrchestrator::create_fused_kernel on the pair (library, profile)
create_fused_kernel(st, op1_name, op2_name) ==
    LET new_kernel_name == fused_name(op1_name, op2_name)
        base == st.hw.base_operational_costs
        cost_op1 == IF Has(base, op1_name) THEN base[op1_name] ELSE 100 * SCALE
        cost_op2 == IF Has(base, op2_name) THEN base[op2_name] ELSE 100 * SCALE
        estimated_fused_cost == Div(8 * (cost_op1 + cost_op2), 10)
    IN IF new_kernel_name \in st.lib THEN st
       ELSE [ lib |-> st.lib \cup {new_kernel_name},
              hw |-> [ st.hw EXCEPT !.base_operational_costs =
                         [ k \in DOMAIN base \cup {new_kernel_name} |->
                             IF k = new_kernel_name THEN estimated_fused_cost
                             ELSE base[k] ] ] ]

\* the loop of analyze_and_fuse_patterns over the pairs that met the
\* threshold, in the order of the std::map
RECURSIVE fuse_in_order(_, _)
fuse_in_order(st, pairs) ==
    IF pairs = {} THEN st
    ELSE LET first == CHOOSE p \in pairs : \A q \in pairs \ {p} : PairLess(p, q)
         IN fuse_in_order(create_fused_kernel(st, first[1], first[2]), pairs \ {first})

\* analyze_and_fuse_patterns fusing one occurrence early
analyze_and_fuse_patterns_eager(st, history, threshold) ==
    IF history = << >> THEN st
    ELSE LET sequences == find_frequent_sequences(st.hw, history)
         IN fuse_in_order(st, { pr \in DOMAIN sequences : sequences[pr] + 1 >= threshold })

\* TaskGraphOrchestrator::analyze_and_fuse_patterns
analyze_and_fuse_patterns(st, history, threshold) ==
    IF history = << >> THEN st
    ELSE LET sequences == find_frequent_sequences(st.hw, history)
         IN fuse_in_order(st, { pr \in DOMAIN sequences : sequences[pr] >= threshold })

\* record_executed_plan running the analysis on every call
record_executed_plan_always(lib, hw, history, counter, threshold, interval, plan) ==
    LET h == Append(history, plan)
        st == analyze_and_fuse_patterns([lib |-> lib, hw |-> hw], h, threshold)
    IN [ plan_history |-> h, task_execution_counter |-> counter + 1,
         lib |-> st.lib, hw |-> st.hw ]

\* TaskGraphOrchestrator::record_executed_plan
record_executed_plan(lib, hw, history, counter, threshold, interval, plan) ==
    LET h == Append(history, plan)
        c == counter + 1
        st == IF c % interval = 0
              THEN analyze_and_fuse_patterns([lib |-> lib, hw |-> hw], h, threshold)
              ELSE [lib |-> lib, hw |-> hw]
    IN [ plan_history |-> h, task_execution_counter |-> c,
         lib |-> st.lib, hw |-> st.hw ]

\* ------------------------------------------------------------------ bounds

\* execute_task calls, direct learn_from_feedback calls, and plans recorded
MaxTasks == 1
MaxLearnCalls == 1
MaxRecordCalls == 2

\* ------------------------------------------------------------------ inputs

Spiky == <<0, 0, 100, -100, 0, 0, 100, -100, 0, 0>>
Smooth == <<1, 2, 3, 4, 5, 6, 7, 8, 9, 10>>

\* kernel_type, whether the kernel pointer of the union is set, kernel_size
Kernels ==
    { [kernel_type |-> "FUNCTION_POINTER", kernel_set |-> TRUE, kernel_size |-> 0],
      [kernel_type |-> "FUNCTION_POINTER", kernel_set |-> FALSE, kernel_size |-> 0],
      [kernel_type |-> "WASM_BINARY", kernel_set |-> TRUE, kernel_size |-> 8],
      [kernel_type |-> "WASM_BINARY", kernel_set |-> TRUE, kernel_size |-> 0] }

Payloads ==
    { [data_in_a |-> Buffer(Spiky), data_in_a_size_bytes |-> 80, data_in_b |-> TRUE,
       data_out |-> TRUE, num_elements |-> 10, has_mnk |-> TRUE],
      [data_in_a |-> Buffer(Smooth), data_in_a_size_bytes |-> 0, data_in_b |-> FALSE,
       data_out |-> TRUE, num_elements |-> 10, has_mnk |-> FALSE],
      [data_in_a |-> NullBuffer, data_in_a_size_bytes |-> 0, data_in_b |-> FALSE,
       data_out |-> TRUE, num_elements |-> 10, has_mnk |-> FALSE],
      [data_in_a |-> Buffer(Spiky), data_in_a_size_bytes |-> 80, data_in_b |-> FALSE,
       data_out |-> FALSE, num_elements |-> 10, has_mnk |-> FALSE],
      [data_in_a |-> NullBuffer, data_in_a_size_bytes |-> 0, data_in_b |-> FALSE,
       data_out |-> FALSE, num_elements |-> 0, has_mnk |-> FALSE] }

TaskTypes == {"", "CONVOLUTION", "GEMM", "SAXPY", "USER_DEFINED_KERNEL"}

MakeTask(type, k, p) ==
    [ task_type |-> type, kernel_type |-> k.kernel_type, kernel_set |-> k.kernel_set,
      kernel_size |-> k.kernel_size, data_in_a |-> p.data_in_a,
      data_in_a_size_bytes |-> p.data_in_a_size_bytes, data_in_b |-> p.data_in_b,
      data_out |-> p.data_out, num_elements |-> p.num_elements,
      has_mnk |-> p.has_mnk, M |-> 2, N |-> 2, K |-> 2 ]

\* every task type with a native kernel on every payload, and every kernel on
\* the SAXPY payloads
Tasks ==
    { MakeTask(type, k, p) : type \in TaskTypes,
                             k \in { q \in Kernels : q.kernel_type = "FUNCTION_POINTER"
                                                     /\ q.kernel_set },
                             p \in Payloads }
    \cup { MakeTask("SAXPY", k, p) : k \in Kernels, p \in Payloads }

NoTask ==
    MakeTask("", [kernel_type |-> "FUNCTION_POINTER", kernel_set |-> FALSE, kernel_size |-> 0],
             [data_in_a |-> NullBuffer, data_in_a_size_bytes |-> 0, data_in_b |-> FALSE,
              data_out |-> FALSE, num_elements |-> 0, has_mnk |-> FALSE])

NoContext ==
    [ task_type |-> "",
      profile |-> [ amplitude_flux |-> 0, frequency_flux |-> 0, hamming_weight |-> 0,
                    sparsity_ratio |-> 0, power_draw_watts |-> 0,
                    temperature_celsius |-> 0, network_latency_ms |-> 0,
                    network_bandwidth_mbps |-> 0, io_throughput_mbps |-> 0,
                    data_quality_score |-> 0 ] ]

NoPlan == Plan("", << >>)

NoLearningContext ==
    [path_name |-> "", transform_key |-> "", main_operation_name |-> "", operation_key |-> ""]

\* the sensor readings a test stages with set_next_iot_profile_override
IotOverrides ==
    { [DefaultIot EXCEPT !.temperature_celsius = 90 * SCALE, !.power_draw_watts = 120 * SCALE],
      [DefaultIot EXCEPT !.data_quality_score = SCALE \div 2],
      [DefaultIot EXCEPT !.data_quality_score = 0] }

\* rates a test forces, and the values should_explore draws from [0, 1)
ExplorationRates == {0, SCALE}
RandomValues == {0, SCALE \div 20, SCALE \div 2, SCALE - 1}

\* the Hamming weights a kernel may report for the float view of its buffers
HammingCosts ==
    { [hw_in_cost |-> 0, hw_out_cost |-> 0], [hw_in_cost |-> 45, hw_out_cost |-> 40] }

\* no buffers handed to the JIT engine
NoJitIo == [x |-> << >>, y |-> << >>, wrapper |-> "none", report |-> ZeroReport]

\* no DGMController constructed
NoDgm ==
    [ archive_ |-> << >>, next_agent_id_ |-> 0, current_iteration_ |-> 0,
      max_iterations_ |-> 0, num_children_per_iteration_ |-> 0,
      selected_parent_ids |-> << >>, children_generated_this_iteration |-> 0,
      size_at_iteration_start |-> 0, pc |-> "none" ]

\* ------------------------------------------------------------------- state

VARIABLES
    hw_profile_,                 \* HardwareProfile shared by the pillars
    kernel_lib_,                 \* the names registered in the KernelLibrary
    plan_history_,               \* TaskGraphOrchestrator::plan_history_
    task_execution_counter_,
    fusion_candidate_threshold_,
    analysis_interval_,
    exploration_rate_,
    use_llm_for_paths_,
    next_iot_override_,
    last_perf_record_,
    last_jit_compiled_kernel_,   \* TRUE when a JIT kernel is staged
    jit_io,                      \* the buffers handed to the JIT engine, its kernel and report
    dgm,                         \* the DGMController: its archive, counters and loop position
    pc,                          \* where execute_task stands
    task,                        \* its argument
    context,                     \* locals of execute_task
    candidate_plans,
    explore,                     \* what should_explore returned
    chosen_plan,
    explored,
    learning_ctx,
    outcome,                     \* how the call ended, read at pc = "done"
    entry,                       \* history: the shared state when the call began
    stages,                      \* history: the pillars the call has run
    learn_call,                  \* history: the last learn_from_feedback call
    learn_count,                 \* history: learn_from_feedback calls so far
    tasks_begun                  \* history: execute_task calls so far

shared == <<hw_profile_, kernel_lib_, plan_history_, task_execution_counter_>>

config == <<fusion_candidate_threshold_, analysis_interval_, exploration_rate_,
            use_llm_for_paths_>>

locals == <<task, context, candidate_plans, explore, chosen_plan, explored, learning_ctx>>

history_vars == <<entry, stages, learn_call, learn_count, tasks_begun>>

vars == <<shared, config, next_iot_override_, last_perf_record_,
          last_jit_compiled_kernel_, jit_io, dgm, pc, locals, outcome, history_vars>>

Snapshot ==
    [ hw |-> hw_profile_, lib |-> kernel_lib_, plan_history |-> plan_history_,
      task_execution_counter |-> task_execution_counter_ ]

NoLearnCall == [ctx |-> NoLearningContext, predicted |-> 0, observed |-> 0]

\* VPUCore::VPUCore and the pillars' constructors
Init ==
    /\ hw_profile_ = InitialBeliefs
    /\ kernel_lib_ = InitialKernels
    /\ plan_history_ = << >>
    /\ task_execution_counter_ = 0
    /\ fusion_candidate_threshold_ = DEFAULT_FUSION_THRESHOLD
    /\ analysis_interval_ = DEFAULT_ANALYSIS_INTERVAL
    /\ exploration_rate_ = DEFAULT_EXPLORATION_RATE
    /\ use_llm_for_paths_ = FALSE
    /\ next_iot_override_ = NoOverride
    /\ last_perf_record_ = EmptyRecord
    /\ last_jit_compiled_kernel_ = FALSE
    /\ jit_io = NoJitIo
    /\ dgm = NoDgm
    /\ pc = "idle"
    /\ task = NoTask
    /\ context = NoContext
    /\ candidate_plans = << >>
    /\ explore = FALSE
    /\ chosen_plan = NoPlan
    /\ explored = FALSE
    /\ learning_ctx = NoLearningContext
    /\ outcome = ""
    /\ entry = [ hw |-> InitialBeliefs, lib |-> InitialKernels, plan_history |-> << >>,
                 task_execution_counter |-> 0 ]
    /\ stages = << >>
    /\ learn_call = NoLearnCall
    /\ learn_count = 0
    /\ tasks_begun = 0

\* ------------------------------------------------------------- test hooks

\* FeedbackLoop::force_exploration_rate_for_testing
force_exploration_rate_for_testing(rate) ==
    /\ pc = "idle"
    /\ tasks_begun < MaxTasks
    /\ rate # exploration_rate_
    /\ exploration_rate_' = rate
    /\ UNCHANGED <<shared, fusion_candidate_threshold_, analysis_interval_,
                   use_llm_for_paths_, next_iot_override_, last_perf_record_,
                   last_jit_compiled_kernel_, jit_io, dgm, pc, locals, outcome, history_vars>>

\* Cortex::set_next_iot_profile_override
set_next_iot_profile_override(iot) ==
    /\ pc = "idle"
    /\ tasks_begun < MaxTasks
    /\ next_iot_override_ # [set |-> TRUE, iot |-> iot]
    /\ next_iot_override_' = [set |-> TRUE, iot |-> iot]
    /\ UNCHANGED <<shared, config, last_perf_record_, last_jit_compiled_kernel_, jit_io, dgm,
                   pc, locals, outcome, history_vars>>

\* Orchestrator::set_llm_path_generation
set_llm_path_generation(enable) ==
    /\ pc = "idle"
    /\ tasks_begun < MaxTasks
    /\ enable # use_llm_for_paths_
    /\ use_llm_for_paths_' = enable
    /\ UNCHANGED <<shared, fusion_candidate_threshold_, analysis_interval_,
                   exploration_rate_, next_iot_override_, last_perf_record_,
                   last_jit_compiled_kernel_, jit_io, dgm, pc, locals, outcome, history_vars>>

\* -------------------------------------------------- VPUCore::execute_task

\* execute_task with the learning step moved before the execution
StageAfter_learn_first(at) ==
    CASE at = "submit" -> "perceive"
      [] at = "perceive" -> "decide"
      [] at = "decide" -> "choose"
      [] at = "choose" -> "learn"
      [] at = "act" -> "learn"
      [] at = "learn" -> "record"
      [] at = "record" -> "done"

\* the statement execute_task reaches after each of its statements
StageAfter(at) ==
    CASE at = "submit" -> "perceive"
      [] at = "perceive" -> "decide"
      [] at = "decide" -> "choose"
      [] at = "choose" -> "act"
      [] at = "act" -> "learn"
      [] at = "learn" -> "record"
      [] at = "record" -> "done"

\* the call: execute_task(task)
Call(t) ==
    /\ pc = "idle"
    /\ tasks_begun < MaxTasks
    /\ tasks_begun' = tasks_begun + 1
    /\ task' = t
    /\ entry' = Snapshot
    /\ stages' = << >>
    /\ outcome' = ""
    /\ pc' = "submit"
    /\ UNCHANGED <<shared, config, next_iot_override_, last_perf_record_,
                   last_jit_compiled_kernel_, jit_io, dgm, context, candidate_plans, explore,
                   chosen_plan, explored, learning_ctx, learn_call, learn_count>>

\* 0. SUBMIT & VALIDATE
Submit ==
    /\ pc = "submit"
    /\ IF submit_task(task)
       THEN pc' = StageAfter("submit") /\ outcome' = outcome
       ELSE pc' = "done" /\ outcome' = "TaskRejected"
    /\ UNCHANGED <<shared, config, next_iot_override_, last_perf_record_,
                   last_jit_compiled_kernel_, jit_io, dgm, locals, history_vars>>

\* 1. PERCEIVE: Cortex::analyze, which uses up a staged override
Perceive ==
    /\ pc = "perceive"
    /\ \E c \in analyze(task, next_iot_override_) : context' = c
    /\ next_iot_override_' = NoOverride
    /\ stages' = Append(stages, "Profile")
    /\ pc' = StageAfter("perceive")
    /\ UNCHANGED <<shared, config, last_perf_record_, last_jit_compiled_kernel_, jit_io, dgm,
                   task, candidate_plans, explore, chosen_plan, explored,
                   learning_ctx, outcome, entry, learn_call, learn_count, tasks_begun>>

\* 2. DECIDE: Orchestrator::determine_optimal_path, whose exception ends the call
Decide ==
    /\ pc = "decide"
    /\ stages' = Append(stages, "Predict")
    /\ IF determine_optimal_path(hw_profile_, use_llm_for_paths_, context) = {}
       THEN /\ pc' = "done"
            /\ outcome' = "NoCandidatePlan"
            /\ candidate_plans' = candidate_plans
       ELSE /\ \E plans \in determine_optimal_path(hw_profile_, use_llm_for_paths_, context) :
                  candidate_plans' = plans
            /\ pc' = StageAfter("decide")
            /\ outcome' = outcome
    /\ UNCHANGED <<shared, config, next_iot_override_, last_perf_record_,
                   last_jit_compiled_kernel_, jit_io, dgm, task, context, explore, chosen_plan,
                   explored, learning_ctx, entry, learn_call, learn_count, tasks_begun>>

\* the plan execute_task picks, and whether it counts as explored
choose_plan(plans, wants_to_explore) ==
    IF wants_to_explore /\ Len(plans) > 1
    THEN [plan |-> plans[2], explored |-> TRUE]
    ELSE [plan |-> plans[1], explored |-> FALSE]

\* the choice between the front plan and the second one
Choose ==
    /\ pc = "choose"
    /\ \E random_value \in RandomValues :
           explore' = should_explore(random_value, exploration_rate_)
    /\ chosen_plan' = choose_plan(candidate_plans, explore').plan
    /\ explored' = choose_plan(candidate_plans, explore').explored
    /\ pc' = StageAfter("choose")
    /\ UNCHANGED <<shared, config, next_iot_override_, last_perf_record_,
                   last_jit_compiled_kernel_, jit_io, dgm, task, context, candidate_plans,
                   learning_ctx, outcome, history_vars>>

\* Act storing the totals of a failed execution as well
Act_storing_failures ==
    /\ pc = "act"
    /\ stages' = Append(stages, "Execute")
    /\ \E hs \in [1..Len(chosen_plan.steps) -> HammingCosts] :
           LET r == execute(kernel_lib_, chosen_plan, task, hs) IN
           /\ last_jit_compiled_kernel_' = r.staged
           /\ last_perf_record_' = r.record
           /\ IF r.error = ""
              THEN /\ pc' = StageAfter("act")
                   /\ outcome' = outcome
              ELSE /\ pc' = "done"
                   /\ outcome' = r.error
    /\ UNCHANGED <<shared, config, next_iot_override_, jit_io, dgm, locals, entry, learn_call,
                   learn_count, tasks_begun>>

\* 3. ACT: Cerebellum::execute, whose exception ends the call
Act ==
    /\ pc = "act"
    /\ stages' = Append(stages, "Execute")
    /\ \E hs \in [1..Len(chosen_plan.steps) -> HammingCosts] :
           LET r == execute(kernel_lib_, chosen_plan, task, hs) IN
           /\ last_jit_compiled_kernel_' = r.staged
           /\ IF r.error = ""
              THEN /\ last_perf_record_' = r.record
                   /\ pc' = StageAfter("act")
                   /\ outcome' = outcome
              ELSE /\ last_perf_record_' = last_perf_record_
                   /\ pc' = "done"
                   /\ outcome' = r.error
    /\ UNCHANGED <<shared, config, next_iot_override_, jit_io, dgm, locals, entry, learn_call,
                   learn_count, tasks_begun>>

\* Learn handing the prediction of the top candidate to learn_from_feedback
Learn_top_candidate ==
    /\ pc = "learn"
    /\ stages' = Append(stages, "Learn")
    /\ learning_ctx' = build_learning_context(chosen_plan, explored, task.task_type)
    /\ learn_call' = [ ctx |-> learning_ctx',
                       predicted |-> candidate_plans[1].predicted_holistic_flux,
                       observed |-> last_perf_record_.observed_holistic_flux ]
    /\ learn_count' = learn_count + 1
    /\ hw_profile_' = learn_from_feedback(hw_profile_, learning_ctx',
                                          candidate_plans[1].predicted_holistic_flux,
                                          last_perf_record_.observed_holistic_flux)
    /\ pc' = StageAfter("learn")
    /\ UNCHANGED <<kernel_lib_, plan_history_, task_execution_counter_, config,
                   next_iot_override_, last_perf_record_, last_jit_compiled_kernel_, jit_io, dgm,
                   task, context, candidate_plans, explore, chosen_plan, explored,
                   outcome, entry, tasks_begun>>

\* 4. LEARN: the LearningContext and FeedbackLoop::learn_from_feedback
Learn ==
    /\ pc = "learn"
    /\ stages' = Append(stages, "Learn")
    /\ learning_ctx' = build_learning_context(chosen_plan, explored, task.task_type)
    /\ learn_call' = [ ctx |-> learning_ctx',
                       predicted |-> chosen_plan.predicted_holistic_flux,
                       observed |-> last_perf_record_.observed_holistic_flux ]
    /\ learn_count' = learn_count + 1
    /\ hw_profile_' = learn_from_feedback(hw_profile_, learning_ctx',
                                          chosen_plan.predicted_holistic_flux,
                                          last_perf_record_.observed_holistic_flux)
    /\ pc' = StageAfter("learn")
    /\ UNCHANGED <<kernel_lib_, plan_history_, task_execution_counter_, config,
                   next_iot_override_, last_perf_record_, last_jit_compiled_kernel_, jit_io, dgm,
                   task, context, candidate_plans, explore, chosen_plan, explored,
                   outcome, entry, tasks_begun>>

\* 5. RECORD & ADAPT: TaskGraphOrchestrator::record_executed_plan
Record ==
    /\ pc = "record"
    /\ stages' = Append(stages, "Record")
    /\ LET r == record_executed_plan(kernel_lib_, hw_profile_, plan_history_,
                                     task_execution_counter_,
                                     fusion_candidate_threshold_, analysis_interval_,
                                     chosen_plan)
       IN /\ plan_history_' = r.plan_history
          /\ task_execution_counter_' = r.task_execution_counter
          /\ kernel_lib_' = r.lib
          /\ hw_profile_' = r.hw
    /\ pc' = StageAfter("record")
    /\ outcome' = IF pc' = "done" THEN "Completed" ELSE outcome
    /\ UNCHANGED <<config, next_iot_override_, last_perf_record_,
                   last_jit_compiled_kernel_, jit_io, dgm, locals, entry, learn_call,
                   learn_count, tasks_begun>>

\* execute_task returns (or its exception leaves it) and its locals die
Return ==
    /\ pc = "done"
    /\ pc' = "idle"
    /\ task' = NoTask
    /\ context' = NoContext
    /\ candidate_plans' = << >>
    /\ explore' = FALSE
    /\ chosen_plan' = NoPlan
    /\ explored' = FALSE
    /\ learning_ctx' = NoLearningContext
    /\ UNCHANGED <<shared, config, next_iot_override_, last_perf_record_,
                   last_jit_compiled_kernel_, jit_io, dgm, outcome, history_vars>>

Next ==
    \/ \E rate \in ExplorationRates : force_exploration_rate_for_testing(rate)
    \/ \E iot \in IotOverrides : set_next_iot_profile_override(iot)
    \/ \E enable \in BOOLEAN : set_llm_path_generation(enable)
    \/ \E t \in Tasks : Call(t)
    \/ Submit
    \/ Perceive
    \/ Decide
    \/ Choose
    \/ Act
    \/ Learn
    \/ Record
    \/ Return

Spec == Init /\ [][Next]_vars

\* ------------------------------------------- the pillars called on their own

\* the LearningContexts a caller of learn_from_feedback hands in: keys the
\* maps hold, a transform key they do not hold, and no key
LearnContexts ==
    { [ path_name |-> "Test Path", transform_key |-> k[1], main_operation_name |-> k[2],
        operation_key |-> k[3] ] :
        k \in { <<"", "", "">>,
                <<"FFT_FORWARD", "", "">>,
                <<"", "", "lambda_Conv_Amp">>,
                <<"", "CONV_DIRECT", "lambda_Conv_Amp">>,
                <<"FFT_FORWARD", "CONV_DIRECT", "lambda_Conv_Amp">>,
                <<"TRANSFORM_TIME_TO_FREQ", "", "lambda_Conv_Amp">> } }

PredictedValues == {0, 100 * SCALE}

ObservedValues == {0, SCALE \div 2, 110 * SCALE, 115 * SCALE}

\* the plans the end-to-end test records, and the two multi-step built-in plans
RecordedPlans ==
    { Plan("TestPlanWithFusionTarget", <<"GEMM_NAIVE", "SAXPY_STANDARD">>),
      Plan("AnotherPlan", <<"CONV_DIRECT">>),
      Plan("JIT Compiled SAXPY", <<"JIT_COMPILE_SAXPY", "EXECUTE_JIT_SAXPY">>),
      Plan("Frequency Domain (FFT)",
           <<"FFT_FORWARD", "ELEMENT_WISE_MULTIPLY", "FFT_INVERSE">>) }

FusionThresholds == {2}

AnalysisIntervals == {2}

\* a direct call of FeedbackLoop::learn_from_feedback
CallLearnFromFeedback(ctx, predicted, observed) ==
    /\ pc = "idle"
    /\ learn_count < MaxLearnCalls
    /\ learn_call' = [ctx |-> ctx, predicted |-> predicted, observed |-> observed]
    /\ learn_count' = learn_count + 1
    /\ hw_profile_' = learn_from_feedback(hw_profile_, ctx, predicted, observed)
    /\ UNCHANGED <<kernel_lib_, plan_history_, task_execution_counter_, config,
                   next_iot_override_, last_perf_record_, last_jit_compiled_kernel_, jit_io, dgm,
                   pc, locals, outcome, entry, stages, tasks_begun>>

\* a direct call of TaskGraphOrchestrator::record_executed_plan
CallRecordExecutedPlan(plan) ==
    /\ pc = "idle"
    /\ Len(plan_history_) < MaxRecordCalls
    /\ LET r == record_executed_plan(kernel_lib_, hw_profile_, plan_history_,
                                     task_execution_counter_,
                                     fusion_candidate_threshold_, analysis_interval_,
                                     plan)
       IN /\ plan_history_' = r.plan_history
          /\ task_execution_counter_' = r.task_execution_counter
          /\ kernel_lib_' = r.lib
          /\ hw_profile_' = r.hw
    /\ UNCHANGED <<config, next_iot_override_, last_perf_record_,
                   last_jit_compiled_kernel_, jit_io, dgm, pc, locals, outcome, history_vars>>

\* TaskGraphOrchestrator::set_fusion_candidate_threshold_for_testing
set_fusion_candidate_threshold_for_testing(threshold) ==
    /\ pc = "idle"
    /\ Len(plan_history_) < MaxRecordCalls
    /\ threshold # fusion_candidate_threshold_
    /\ fusion_candidate_threshold_' = threshold
    /\ UNCHANGED <<shared, analysis_interval_, exploration_rate_, use_llm_for_paths_,
                   next_iot_override_, last_perf_record_, last_jit_compiled_kernel_, jit_io, dgm,
                   pc, locals, outcome, history_vars>>

\* TaskGraphOrchestrator::set_analysis_interval_for_testing
set_analysis_interval_for_testing(interval) ==
    /\ pc = "idle"
    /\ Len(plan_history_) < MaxRecordCalls
    /\ interval # analysis_interval_
    /\ analysis_interval_' = interval
    /\ UNCHANGED <<shared, fusion_candidate_threshold_, exploration_rate_,
                   use_llm_for_paths_, next_iot_override_, last_perf_record_,
                   last_jit_compiled_kernel_, jit_io, dgm, pc, locals, outcome, history_vars>>

\* TaskGraphOrchestrator::reset_task_execution_counter_for_testing
reset_task_execution_counter_for_testing ==
    /\ pc = "idle"
    /\ Len(plan_history_) < MaxRecordCalls
    /\ task_execution_counter_ # 0
    /\ task_execution_counter_' = 0
    /\ UNCHANGED <<hw_profile_, kernel_lib_, plan_history_, config, next_iot_override_,
                   last_perf_record_, last_jit_compiled_kernel_, jit_io, dgm, pc, locals, outcome,
                   history_vars>>

NextPillars ==
    \/ \E ctx \in LearnContexts : \E predicted \in PredictedValues :
         \E observed \in ObservedValues : CallLearnFromFeedback(ctx, predicted, observed)
    \/ \E plan \in RecordedPlans : CallRecordExecutedPlan(plan)
    \/ \E threshold \in FusionThresholds :
         set_fusion_candidate_threshold_for_testing(threshold)
    \/ \E interval \in AnalysisIntervals : set_analysis_interval_for_testing(interval)
    \/ reset_task_execution_counter_for_testing

\* the FeedbackLoop and the TaskGraphOrchestrator driven through their own
\* entry points, as the end-to-end test drives them
SpecPillars == Init /\ [][NextPillars]_vars

\* --------------------------------- the TaskGraphOrchestrator driven on its own

\* plans recorded by the fusion test
MaxFusionRecords == 3

\* the plans of RecordedPlans, a plan that holds one pair twice, and a plan
\* whose two step names concatenate to the names of the first test plan
FusionPlans ==
    RecordedPlans
    \cup { Plan("RepeatedPairPlan",
                <<"GEMM_NAIVE", "SAXPY_STANDARD", "GEMM_NAIVE", "SAXPY_STANDARD">>),
           Plan("SplitNamePlan", <<"GEMM", "NAIVE_SAXPY_STANDARD">>) }

TestThresholds == {1, 2}

TestIntervals == {1, 3}

\* the LearningContext execute_task builds for a Naive GEMM plan
GemmLearningContext ==
    [ path_name |-> "Naive GEMM", transform_key |-> "",
      main_operation_name |-> "GEMM_NAIVE", operation_key |-> "lambda_Sparsity" ]

\* record_executed_plan called by the fusion test
FusionRecord(plan) ==
    /\ pc = "idle"
    /\ Len(plan_history_) < MaxFusionRecords
    /\ LET r == record_executed_plan(kernel_lib_, hw_profile_, plan_history_,
                                     task_execution_counter_,
                                     fusion_candidate_threshold_, analysis_interval_,
                                     plan)
       IN /\ plan_history_' = r.plan_history
          /\ task_execution_counter_' = r.task_execution_counter
          /\ kernel_lib_' = r.lib
          /\ hw_profile_' = r.hw
    /\ UNCHANGED <<config, next_iot_override_, last_perf_record_,
                   last_jit_compiled_kernel_, jit_io, dgm, pc, locals, outcome, history_vars>>

\* set_fusion_candidate_threshold_for_testing called by the fusion test
FusionSetThreshold(threshold) ==
    /\ pc = "idle"
    /\ Len(plan_history_) < MaxFusionRecords
    /\ threshold # fusion_candidate_threshold_
    /\ fusion_candidate_threshold_' = threshold
    /\ UNCHANGED <<shared, analysis_interval_, exploration_rate_, use_llm_for_paths_,
                   next_iot_override_, last_perf_record_, last_jit_compiled_kernel_, jit_io, dgm,
                   pc, locals, outcome, history_vars>>

\* set_analysis_interval_for_testing called by the fusion test
FusionSetInterval(interval) ==
    /\ pc = "idle"
    /\ Len(plan_history_) < MaxFusionRecords
    /\ interval # analysis_interval_
    /\ analysis_interval_' = interval
    /\ UNCHANGED <<shared, fusion_candidate_threshold_, exploration_rate_,
                   use_llm_for_paths_, next_iot_override_, last_perf_record_,
                   last_jit_compiled_kernel_, jit_io, dgm, pc, locals, outcome, history_vars>>

\* learn_from_feedback for a GEMM task that cost nothing, between two records
FusionLearn ==
    /\ Len(plan_history_) < MaxFusionRecords
    /\ CallLearnFromFeedback(GemmLearningContext, 100 * SCALE, 0)

NextFusion ==
    \/ \E plan \in FusionPlans : FusionRecord(plan)
    \/ \E threshold \in TestThresholds : FusionSetThreshold(threshold)
    \/ \E interval \in TestIntervals : FusionSetInterval(interval)
    \/ FusionLearn

\* the TaskGraphOrchestrator as the fusion test drives it, with the
\* FeedbackLoop changing base costs in between
SpecFusion == Init /\ [][NextFusion]_vars

\* ------------------------------------------ the Orchestrator called on its own

\* the map m without the keys of gone
Without(m, gone) == [ k \in DOMAIN m \ gone |-> m[k] ]

\* the sets of sensitivities a HardwareProfile handed to the Orchestrator lacks
MissingLambdas ==
    { {}, {"lambda_Conv_Amp"}, {"lambda_Conv_Freq"},
      {"lambda_Conv_Amp", "lambda_Conv_Freq"},
      DOMAIN InitialBeliefs.flux_sensitivities }

\* the cost entries it lacks
MissingCosts == { {}, {"CONV_DIRECT", "FFT_INVERSE"}, {"GEMM_NAIVE", "GEMM_FLUX_ADAPTIVE"} }

\* the HardwareProfiles an Orchestrator is constructed on
SeedProfiles ==
    { [ base_operational_costs |-> Without(InitialBeliefs.base_operational_costs, c),
        transform_costs |-> Without(InitialBeliefs.transform_costs, c),
        flux_sensitivities |-> Without(InitialBeliefs.flux_sensitivities, l) ] :
        l \in MissingLambdas, c \in MissingCosts }

\* the contexts Cortex::analyze hands to the Orchestrator
PredictContexts ==
    UNION { analyze(t, o) :
              t \in { q \in Tasks : submit_task(q) },
              o \in {NoOverride} \cup { [set |-> TRUE, iot |-> i] : i \in IotOverrides } }

\* Orchestrator::Orchestrator on a profile of the caller's
InitOrchestrator ==
    /\ hw_profile_ \in SeedProfiles
    /\ kernel_lib_ = InitialKernels
    /\ plan_history_ = << >>
    /\ task_execution_counter_ = 0
    /\ fusion_candidate_threshold_ = DEFAULT_FUSION_THRESHOLD
    /\ analysis_interval_ = DEFAULT_ANALYSIS_INTERVAL
    /\ exploration_rate_ = DEFAULT_EXPLORATION_RATE
    /\ use_llm_for_paths_ = FALSE
    /\ next_iot_override_ = NoOverride
    /\ last_perf_record_ = EmptyRecord
    /\ last_jit_compiled_kernel_ = FALSE
    /\ jit_io = NoJitIo
    /\ dgm = NoDgm
    /\ pc = "idle"
    /\ task = NoTask
    /\ context = NoContext
    /\ candidate_plans = << >>
    /\ explore = FALSE
    /\ chosen_plan = NoPlan
    /\ explored = FALSE
    /\ learning_ctx = NoLearningContext
    /\ outcome = ""
    /\ entry = [ hw |-> hw_profile_, lib |-> InitialKernels, plan_history |-> << >>,
                 task_execution_counter |-> 0 ]
    /\ stages = << >>
    /\ learn_call = NoLearnCall
    /\ learn_count = 0
    /\ tasks_begun = 0

\* a direct call of Orchestrator::determine_optimal_path
CallDetermineOptimalPath(ctx) ==
    /\ pc = "idle"
    /\ context' = ctx
    /\ IF determine_optimal_path(hw_profile_, use_llm_for_paths_, ctx) = {}
       THEN /\ candidate_plans' = << >>
            /\ outcome' = "NoCandidatePlan"
       ELSE /\ \E plans \in determine_optimal_path(hw_profile_, use_llm_for_paths_, ctx) :
                  candidate_plans' = plans
            /\ outcome' = "Completed"
    /\ UNCHANGED <<shared, config, next_iot_override_, last_perf_record_,
                   last_jit_compiled_kernel_, jit_io, dgm, pc, task, explore, chosen_plan,
                   explored, learning_ctx, history_vars>>

\* Orchestrator::set_llm_path_generation between two calls
OrchestratorSetLlm(enable) ==
    /\ pc = "idle"
    /\ enable # use_llm_for_paths_
    /\ use_llm_for_paths_' = enable
    /\ UNCHANGED <<shared, fusion_candidate_threshold_, analysis_interval_,
                   exploration_rate_, next_iot_override_, last_perf_record_,
                   last_jit_compiled_kernel_, jit_io, dgm, pc, locals, outcome, history_vars>>

NextOrchestrator ==
    \/ \E ctx \in PredictContexts : CallDetermineOptimalPath(ctx)
    \/ \E enable \in BOOLEAN : OrchestratorSetLlm(enable)

SpecOrchestrator == InitOrchestrator /\ [][NextOrchestrator]_vars

\* ------------------------------------------------ the Cortex called on its own

\* analyze calls made on the Cortex
MaxAnalyzeCalls == 2

\* CallAnalyze leaving the staged override in place
CallAnalyze_keeping(t) ==
    /\ pc = "idle"
    /\ Len(stages) < MaxAnalyzeCalls
    /\ \E c \in analyze(t, next_iot_override_) : context' = c
    /\ stages' = Append(stages, IF next_iot_override_.set THEN "ProfileOverride"
                                ELSE "Profile")
    /\ UNCHANGED <<shared, config, next_iot_override_, last_perf_record_,
                   last_jit_compiled_kernel_, jit_io, dgm, pc, task, candidate_plans, explore,
                   chosen_plan, explored, learning_ctx, outcome, entry, learn_call,
                   learn_count, tasks_begun>>

\* a direct call of Cortex::analyze; stages keeps, per call, whether it read
\* the staged override or the sensor values
CallAnalyze(t) ==
    /\ pc = "idle"
    /\ Len(stages) < MaxAnalyzeCalls
    /\ \E c \in analyze(t, next_iot_override_) : context' = c
    /\ next_iot_override_' = NoOverride
    /\ stages' = Append(stages, IF next_iot_override_.set THEN "ProfileOverride"
                                ELSE "Profile")
    /\ UNCHANGED <<shared, config, last_perf_record_, last_jit_compiled_kernel_, jit_io, dgm,
                   pc, task, candidate_plans, explore, chosen_plan, explored,
                   learning_ctx, outcome, entry, learn_call, learn_count, tasks_begun>>

NextCortex ==
    \/ \E iot \in IotOverrides : set_next_iot_profile_override(iot)
    \/ \E t \in Tasks : CallAnalyze(t)

SpecCortex == Init /\ [][NextCortex]_vars

\* --------------------------- two tasks dispatched on one HardwareProfile

\* the contexts of the task whose Orchestrator reads the profile
ConcurrentContexts ==
    UNION { analyze(t, NoOverride) :
              t \in { q \in Tasks : /\ submit_task(q)
                                    /\ q.kernel_type = "FUNCTION_POINTER"
                                    /\ q.task_type \in {"CONVOLUTION", "GEMM"} } }

\* learn_from_feedback takes the branch that updates the beliefs key by key
TakesQuarkBranch(predicted, observed) ==
    /\ predicted # 0
    /\ Abs(relative_deviation(predicted, observed)) >= QUARK_THRESHOLD

\* one task enters learn_from_feedback; the branches that write at most one
\* key are done at once
ThreadLearnBegin(ctx, predicted, observed) ==
    /\ pc = "idle"
    /\ learn_count < MaxLearnCalls
    /\ learn_call' = [ctx |-> ctx, predicted |-> predicted, observed |-> observed]
    /\ learn_count' = learn_count + 1
    /\ entry' = Snapshot
    /\ IF TakesQuarkBranch(predicted, observed)
       THEN pc' = "learn_transform" /\ hw_profile_' = hw_profile_
       ELSE /\ pc' = "idle"
            /\ hw_profile_' = learn_from_feedback(hw_profile_, ctx, predicted, observed)
    /\ UNCHANGED <<kernel_lib_, plan_history_, task_execution_counter_, config,
                   next_iot_override_, last_perf_record_, last_jit_compiled_kernel_, jit_io, dgm,
                   locals, outcome, stages, tasks_begun>>

\* 1. the write to transform_costs
ThreadLearnTransform ==
    /\ pc = "learn_transform"
    /\ hw_profile_' = update_transform_cost(hw_profile_, learn_call.ctx,
                                            learn_call.predicted, learn_call.observed)
    /\ pc' = "learn_base"
    /\ UNCHANGED <<kernel_lib_, plan_history_, task_execution_counter_, config,
                   next_iot_override_, last_perf_record_, last_jit_compiled_kernel_, jit_io, dgm,
                   locals, outcome, history_vars>>

\* 2. the write to base_operational_costs
ThreadLearnBase ==
    /\ pc = "learn_base"
    /\ hw_profile_' = update_base_cost(hw_profile_, learn_call.ctx,
                          relative_deviation(learn_call.predicted, learn_call.observed))
    /\ pc' = "learn_sensitivity"
    /\ UNCHANGED <<kernel_lib_, plan_history_, task_execution_counter_, config,
                   next_iot_override_, last_perf_record_, last_jit_compiled_kernel_, jit_io, dgm,
                   locals, outcome, history_vars>>

\* 3. the write to flux_sensitivities, after which the call returns
ThreadLearnSensitivity ==
    /\ pc = "learn_sensitivity"
    /\ hw_profile_' = update_sensitivity(hw_profile_, learn_call.ctx,
                          relative_deviation(learn_call.predicted, learn_call.observed))
    /\ pc' = "idle"
    /\ UNCHANGED <<kernel_lib_, plan_history_, task_execution_counter_, config,
                   next_iot_override_, last_perf_record_, last_jit_compiled_kernel_, jit_io, dgm,
                   locals, outcome, history_vars>>

\* the other task's determine_optimal_path, which takes no lock and so runs
\* wherever the learning task stands
ThreadPredict(ctx) ==
    /\ context' = ctx
    /\ \E plans \in determine_optimal_path(hw_profile_, use_llm_for_paths_, ctx) :
           candidate_plans' = plans
    /\ UNCHANGED <<shared, config, next_iot_override_, last_perf_record_,
                   last_jit_compiled_kernel_, jit_io, dgm, pc, task, explore, chosen_plan,
                   explored, learning_ctx, outcome, history_vars>>

NextConcurrent ==
    \/ \E ctx \in LearnContexts, predicted \in PredictedValues, observed \in ObservedValues :
           ThreadLearnBegin(ctx, predicted, observed)
    \/ ThreadLearnTransform
    \/ ThreadLearnBase
    \/ ThreadLearnSensitivity
    \/ \E ctx \in ConcurrentContexts : ThreadPredict(ctx)

SpecConcurrent == Init /\ [][NextConcurrent]_vars

\* -------------------------------------------- the Cerebellum called on its own

\* execute calls made on the Cerebellum
MaxExecuteCalls == 2

\* plans handed to Cerebellum::execute: built-in ones, the fusion test's
\* two-step plan, and an execute step with no compile step before it
ExecutePlans ==
    { Plan("Standard SAXPY", <<"SAXPY_STANDARD">>),
      Plan("JIT Compiled SAXPY", <<"JIT_COMPILE_SAXPY", "EXECUTE_JIT_SAXPY">>),
      Plan("Execute Only", <<"EXECUTE_JIT_SAXPY">>),
      Plan("TestPlanWithFusionTarget", <<"GEMM_NAIVE", "SAXPY_STANDARD">>),
      Plan("Frequency Domain (FFT)",
           <<"FFT_FORWARD", "ELEMENT_WISE_MULTIPLY", "FFT_INVERSE">>) }

ExecuteTasks ==
    { t \in Tasks : t.task_type = "SAXPY" /\ t.kernel_type = "FUNCTION_POINTER"
                    /\ t.kernel_set }

\* CallExecute without the reset of last_jit_compiled_kernel_ at entry
CallExecute_keeping_staged(plan, t) ==
    /\ pc = "idle"
    /\ Len(stages) < MaxExecuteCalls
    /\ chosen_plan' = plan
    /\ task' = t
    /\ \E hs \in [1..Len(plan.steps) -> HammingCosts] :
           LET r == run_steps(kernel_lib_, plan.steps, t, hs, 1, ZeroReport,
                              last_jit_compiled_kernel_)
           IN /\ last_jit_compiled_kernel_' = r.staged
              /\ stages' = Append(stages, IF r.staged THEN "ExecuteStaged" ELSE "Execute")
              /\ IF r.error = ""
                 THEN /\ last_perf_record_' = execute(kernel_lib_, plan, t, hs).record
                      /\ outcome' = "Completed"
                 ELSE /\ last_perf_record_' = last_perf_record_
                      /\ outcome' = r.error
    /\ UNCHANGED <<shared, config, next_iot_override_, jit_io, dgm, pc, context, candidate_plans,
                   explore, explored, learning_ctx, entry, learn_call, learn_count,
                   tasks_begun>>

\* a direct call of Cerebellum::execute; stages keeps, per call, whether it
\* left a JIT kernel staged
CallExecute(plan, t) ==
    /\ pc = "idle"
    /\ Len(stages) < MaxExecuteCalls
    /\ chosen_plan' = plan
    /\ task' = t
    /\ \E hs \in [1..Len(plan.steps) -> HammingCosts] :
           LET r == execute(kernel_lib_, plan, t, hs)
           IN /\ last_jit_compiled_kernel_' = r.staged
              /\ stages' = Append(stages, IF r.staged THEN "ExecuteStaged" ELSE "Execute")
              /\ IF r.error = ""
                 THEN /\ last_perf_record_' = r.record
                      /\ outcome' = "Completed"
                 ELSE /\ last_perf_record_' = last_perf_record_
                      /\ outcome' = r.error
    /\ UNCHANGED <<shared, config, next_iot_override_, jit_io, dgm, pc, context, candidate_plans,
                   explore, explored, learning_ctx, entry, learn_call, learn_count,
                   tasks_begun>>

NextCerebellum == \E plan \in ExecutePlans, t \in ExecuteTasks : CallExecute(plan, t)

SpecCerebellum == Init /\ [][NextCerebellum]_vars

\* ------------------------------------------------ the JIT engine on its own

\* elements of the buffers handed to the JIT engine
MaxElements == 2

\* calls made on the JIT engine and on the kernel it returned
MaxJitCalls == 2

\* the placeholder compile_saxpy_for_data uses for the SAXPY scalar
fixed_a == 1

\* buffers of whole-valued floats
FloatValues == {0, 1, 2}

\* HAL::cpu_saxpy_sparse_specialized
cpu_saxpy_sparse_specialized(a, x, y_mut) ==
    IF y_mut = << >> THEN y_mut
    ELSE LET x_val == IF x = << >> THEN 0 ELSE x[1]
         IN [y_mut EXCEPT ![1] = y_mut[1] + (a * x_val) + 1]

\* HAL::cpu_saxpy_dense_specialized
cpu_saxpy_dense_specialized(a, x, y_mut) ==
    IF y_mut = << >> THEN y_mut
    ELSE LET x_val == IF x = << >> THEN 0 ELSE x[1]
         IN [y_mut EXCEPT ![1] = y_mut[1] + (a * x_val) + 2]

\* the lambda compile_saxpy_for_data builds, run on non-null buffers x and y
\* of num_elements_captured floats each; h holds the Hamming weights
saxpy_execution_lambda(use_sparse_specialization, x, y, h) ==
    IF Len(x) = 0
    THEN [y |-> y, report |-> ZeroReport]
    ELSE [ y |-> IF use_sparse_specialization
                 THEN cpu_saxpy_sparse_specialized(fixed_a, x, y)
                 ELSE cpu_saxpy_dense_specialized(fixed_a, x, y),
           report |-> [cycle_cost |-> Len(x) * 2,
                       hw_in_cost |-> h.hw_in_cost, hw_out_cost |-> h.hw_out_cost] ]

\* a VPUCore as constructed, and a task whose data_in_a and data_out point
\* at two buffers of equal length
InitJit ==
    /\ hw_profile_ = InitialBeliefs
    /\ kernel_lib_ = InitialKernels
    /\ plan_history_ = << >>
    /\ task_execution_counter_ = 0
    /\ fusion_candidate_threshold_ = DEFAULT_FUSION_THRESHOLD
    /\ analysis_interval_ = DEFAULT_ANALYSIS_INTERVAL
    /\ exploration_rate_ = DEFAULT_EXPLORATION_RATE
    /\ use_llm_for_paths_ = FALSE
    /\ next_iot_override_ = NoOverride
    /\ last_perf_record_ = EmptyRecord
    /\ last_jit_compiled_kernel_ = FALSE
    /\ \E n \in 0..MaxElements :
           \E x \in [1..n -> FloatValues], y \in [1..n -> FloatValues] :
               jit_io = [x |-> x, y |-> y, wrapper |-> "none", report |-> ZeroReport]
    /\ dgm = NoDgm
    /\ pc = "idle"
    /\ task = NoTask
    /\ context = NoContext
    /\ candidate_plans = << >>
    /\ explore = FALSE
    /\ chosen_plan = NoPlan
    /\ explored = FALSE
    /\ learning_ctx = NoLearningContext
    /\ outcome = ""
    /\ entry = [ hw |-> InitialBeliefs, lib |-> InitialKernels, plan_history |-> << >>,
                 task_execution_counter |-> 0 ]
    /\ stages = << >>
    /\ learn_call = NoLearnCall
    /\ learn_count = 0
    /\ tasks_begun = 0

\* FluxJITEngine::compile_saxpy_for_data with the LLM strategy off: the
\* wrapper is picked by the share of zeros in x
JitCompile ==
    /\ Len(stages) < MaxJitCalls
    /\ LET x == jit_io.x
           zero_count == Cardinality({i \in 1..Len(x) : x[i] = 0})
           sparse == IF Len(x) = 0 THEN TRUE ELSE 2 * zero_count > Len(x)
       IN jit_io' = [jit_io EXCEPT !.wrapper = IF sparse THEN "sparse" ELSE "dense"]
    /\ stages' = Append(stages, "JitCompile")
    /\ UNCHANGED <<shared, config, next_iot_override_, dgm, last_perf_record_,
                   last_jit_compiled_kernel_, pc, locals, outcome, entry,
                   learn_call, learn_count, tasks_begun>>

\* a call of the nullary kernel compile_saxpy_for_data returned
JitInvoke ==
    /\ Len(stages) < MaxJitCalls
    /\ jit_io.wrapper # "none"
    /\ \E h \in HammingCosts :
           LET r == saxpy_execution_lambda(jit_io.wrapper = "sparse", jit_io.x, jit_io.y, h)
           IN jit_io' = [jit_io EXCEPT !.y = r.y, !.report = r.report]
    /\ stages' = Append(stages, "JitInvoke")
    /\ UNCHANGED <<shared, config, next_iot_override_, dgm, last_perf_record_,
                   last_jit_compiled_kernel_, pc, locals, outcome, entry,
                   learn_call, learn_count, tasks_begun>>

NextJit == JitCompile \/ JitInvoke

SpecJit == InitJit /\ [][NextJit]_vars

\* ------------------------------ execute_task next to the Pillar 6 test hooks

\* execute_task on SAXPY tasks, with the TaskGraphOrchestrator also driven
\* through record_executed_plan and its setters as the fusion test drives it
NextCore ==
    \/ \E t \in ExecuteTasks : Call(t)
    \/ Submit
    \/ Perceive
    \/ Decide
    \/ Choose
    \/ Act
    \/ Learn
    \/ Record
    \/ Return
    \/ \E plan \in RecordedPlans : CallRecordExecutedPlan(plan)
    \/ \E threshold \in FusionThresholds :
         set_fusion_candidate_threshold_for_testing(threshold)
    \/ \E interval \in AnalysisIntervals : set_analysis_interval_for_testing(interval)

SpecCore == Init /\ [][NextCore]_vars

\* --------------------------------------- simulate_flux_cost applied on its own

\* plans and DataProfiles handed to simulate_flux_cost: steps that begin with
\* a network or I/O tag, a step that holds such a tag further in, and sensor
\* readings on both sides of every threshold
SimulateInputs ==
    { [ plan |-> p,
        profile |-> [ NoContext.profile EXCEPT
                        !.sparsity_ratio = SCALE,
                        !.temperature_celsius = temp,
                        !.power_draw_watts = watts,
                        !.network_latency_ms = lat,
                        !.network_bandwidth_mbps = DefaultIot.network_bandwidth_mbps,
                        !.io_throughput_mbps = io,
                        !.data_quality_score = q ] ] :
        p \in { Plan("Direct Convolution", <<"CONV_DIRECT">>),
                Plan("Remote Convolution", <<"REMOTE_FETCH", "CONV_DIRECT">>),
                Plan("Disk Convolution", <<"DISK_READ", "CONV_DIRECT">>),
                Plan("Preloaded Convolution", <<"PRELOAD_WEIGHTS", "CONV_DIRECT">>),
                Plan("Network SAXPY", <<"NETWORK_RECV", "LOAD_INPUT", "SAXPY_STANDARD">>) },
        temp \in {DefaultIot.temperature_celsius, 90 * SCALE},
        watts \in {DefaultIot.power_draw_watts, 120 * SCALE},
        lat \in {DefaultIot.network_latency_ms, 150 * SCALE},
        io \in {0, 10 * SCALE, DefaultIot.io_throughput_mbps},
        q \in {0, SCALE \div 2, DefaultIot.data_quality_score, SCALE} }

\* one call of Orchestrator::simulate_flux_cost, as determine_optimal_path
\* makes it for a candidate
CallSimulateFluxCost(plan, profile) ==
    /\ pc = "idle"
    /\ context' = [task_type |-> "", profile |-> profile]
    /\ chosen_plan' = [plan EXCEPT !.predicted_holistic_flux =
                           simulate_flux_cost(hw_profile_, plan, profile)]
    /\ stages' = <<"Predict">>
    /\ UNCHANGED <<shared, config, next_iot_override_, last_perf_record_,
                   last_jit_compiled_kernel_, jit_io, dgm, pc, task, candidate_plans, explore,
                   explored, learning_ctx, outcome, entry, learn_call, learn_count,
                   tasks_begun>>

NextSimulate == \E in \in SimulateInputs : CallSimulateFluxCost(in.plan, in.profile)

SpecSimulate == Init /\ [][NextSimulate]_vars

\* ------------------------------------------------------- the DGM controller

\* the largest max_iterations and num_children_per_iteration a controller is
\* built with
MaxIterations == 3
MaxChildren == 2

\* AgentArchive::add_agent: agents_[agent.agent_id] = agent
add_agent(archive, agent) ==
    [ id \in DOMAIN archive \cup {agent.agent_id} |->
        IF id = agent.agent_id THEN agent ELSE archive[id] ]

\* select_parents finding no agent to draw
select_parents_none(archive, num_parents_to_select) == { << >> }

\* ParentSelector::select_parents: every id sequence it may return. Each
\* agent's weight is a sigmoid times 1/(1 + children_count), hence positive,
\* so the discrete distribution can draw any agent at any position.
select_parents(archive, num_parents_to_select) ==
    LET ids == DOMAIN archive IN
    IF ids = {} \/ num_parents_to_select <= 0 THEN { << >> }
    ELSE IF Cardinality(ids) <= num_parents_to_select
    THEN { CHOOSE seq \in [1..Cardinality(ids) -> ids] :
               \A i, j \in 1..Cardinality(ids) : i < j => seq[i] < seq[j] }
    ELSE [1..num_parents_to_select -> ids]

\* DGMController::DGMController with both counts positive: agent 0, with
\* parent_id -1 standing for std::nullopt, is in the archive
InitDgm ==
    /\ hw_profile_ = InitialBeliefs
    /\ kernel_lib_ = InitialKernels
    /\ plan_history_ = << >>
    /\ task_execution_counter_ = 0
    /\ fusion_candidate_threshold_ = DEFAULT_FUSION_THRESHOLD
    /\ analysis_interval_ = DEFAULT_ANALYSIS_INTERVAL
    /\ exploration_rate_ = DEFAULT_EXPLORATION_RATE
    /\ use_llm_for_paths_ = FALSE
    /\ next_iot_override_ = NoOverride
    /\ last_perf_record_ = EmptyRecord
    /\ last_jit_compiled_kernel_ = FALSE
    /\ jit_io = NoJitIo
    /\ \E max_iterations \in 1..MaxIterations, num_children \in 1..MaxChildren :
           dgm = [ NoDgm EXCEPT
                     !.archive_ = add_agent(<< >>,
                         [ agent_id |-> 0, parent_id |-> -1,
                           source_code_representation |-> "Initial_VPU_Agent_Code_v0",
                           children_count |-> 0, creation_iteration |-> 0 ]),
                     !.next_agent_id_ = 1,
                     !.max_iterations_ = max_iterations,
                     !.num_children_per_iteration_ = num_children,
                     !.pc = "constructed" ]
    /\ pc = "idle"
    /\ task = NoTask
    /\ context = NoContext
    /\ candidate_plans = << >>
    /\ explore = FALSE
    /\ chosen_plan = NoPlan
    /\ explored = FALSE
    /\ learning_ctx = NoLearningContext
    /\ outcome = ""
    /\ entry = [ hw |-> InitialBeliefs, lib |-> InitialKernels, plan_history |-> << >>,
                 task_execution_counter |-> 0 ]
    /\ stages = << >>
    /\ learn_call = NoLearnCall
    /\ learn_count = 0
    /\ tasks_begun = 0

\* run_evolutionary_loop is entered: current_iteration_ = 1
DgmRun ==
    /\ dgm.pc = "constructed"
    /\ dgm' = [dgm EXCEPT !.current_iteration_ = 1, !.pc = "loop"]
    /\ UNCHANGED <<shared, config, next_iot_override_, last_perf_record_,
                   last_jit_compiled_kernel_, jit_io, pc, locals, outcome, history_vars>>

\* the head of one iteration: the two early stops and the parent selection
DgmSelect ==
    /\ dgm.pc = "loop"
    /\ dgm.current_iteration_ <= dgm.max_iterations_
    /\ IF DOMAIN dgm.archive_ = {}
       THEN dgm' = [dgm EXCEPT !.pc = "stopped_empty_archive"]
       ELSE \E selected \in select_parents(dgm.archive_, dgm.num_children_per_iteration_) :
                dgm' = IF selected = << >>
                       THEN [dgm EXCEPT !.pc = "stopped_no_parents"]
                       ELSE [dgm EXCEPT !.selected_parent_ids = selected,
                                        !.children_generated_this_iteration = 0,
                                        !.size_at_iteration_start =
                                            Cardinality(DOMAIN dgm.archive_),
                                        !.pc = "children"]
    /\ UNCHANGED <<shared, config, next_iot_override_, last_perf_record_,
                   last_jit_compiled_kernel_, jit_io, pc, locals, outcome, history_vars>>

\* DgmChild with is_agent_valid answering false: the child is discarded
DgmChild_discarding ==
    /\ dgm.pc = "children"
    /\ dgm.children_generated_this_iteration < Len(dgm.selected_parent_ids)
    /\ dgm.children_generated_this_iteration < dgm.num_children_per_iteration_
    /\ LET parent_id == dgm.selected_parent_ids[dgm.children_generated_this_iteration + 1]
       IN dgm' = [dgm EXCEPT !.archive_[parent_id].children_count = @ + 1,
                             !.next_agent_id_ = @ + 1,
                             !.children_generated_this_iteration = @ + 1]
    /\ UNCHANGED <<shared, config, next_iot_override_, last_perf_record_,
                   last_jit_compiled_kernel_, jit_io, pc, locals, outcome, history_vars>>

\* DgmChild without the increment of the parent's children_count
DgmChild_uncounted ==
    /\ dgm.pc = "children"
    /\ dgm.children_generated_this_iteration < Len(dgm.selected_parent_ids)
    /\ dgm.children_generated_this_iteration < dgm.num_children_per_iteration_
    /\ LET parent_id == dgm.selected_parent_ids[dgm.children_generated_this_iteration + 1]
           parent_agent == dgm.archive_[parent_id]
           child_agent ==
               [ agent_id |-> dgm.next_agent_id_,
                 parent_id |-> parent_agent.agent_id,
                 source_code_representation |->
                     parent_agent.source_code_representation \o "_child_of_"
                     \o ToString(parent_agent.agent_id) \o "_iter_"
                     \o ToString(dgm.current_iteration_),
                 children_count |-> 0,
                 creation_iteration |-> dgm.current_iteration_ ]
       IN dgm' = [dgm EXCEPT !.archive_ = add_agent(dgm.archive_, child_agent),
                             !.next_agent_id_ = @ + 1,
                             !.children_generated_this_iteration = @ + 1]
    /\ UNCHANGED <<shared, config, next_iot_override_, last_perf_record_,
                   last_jit_compiled_kernel_, jit_io, pc, locals, outcome, history_vars>>

\* one pass of the loop over selected_parent_ids: self_modify, the parent's
\* children_count, evaluate, is_agent_valid (always true) and add_agent
DgmChild ==
    /\ dgm.pc = "children"
    /\ dgm.children_generated_this_iteration < Len(dgm.selected_parent_ids)
    /\ dgm.children_generated_this_iteration < dgm.num_children_per_iteration_
    /\ LET parent_id == dgm.selected_parent_ids[dgm.children_generated_this_iteration + 1]
           parent_agent == dgm.archive_[parent_id]
           child_agent ==
               [ agent_id |-> dgm.next_agent_id_,
                 parent_id |-> parent_agent.agent_id,
                 source_code_representation |->
                     parent_agent.source_code_representation \o "_child_of_"
                     \o ToString(parent_agent.agent_id) \o "_iter_"
                     \o ToString(dgm.current_iteration_),
                 children_count |-> 0,
                 creation_iteration |-> dgm.current_iteration_ ]
           counted == [dgm.archive_ EXCEPT ![parent_id].children_count = @ + 1]
       IN dgm' = [dgm EXCEPT !.archive_ = add_agent(counted, child_agent),
                             !.next_agent_id_ = @ + 1,
                             !.children_generated_this_iteration = @ + 1]
    /\ UNCHANGED <<shared, config, next_iot_override_, last_perf_record_,
                   last_jit_compiled_kernel_, jit_io, pc, locals, outcome, history_vars>>

\* the loop over selected_parent_ids has ended: ++current_iteration_
DgmEndIteration ==
    /\ dgm.pc = "children"
    /\ \/ dgm.children_generated_this_iteration >= Len(dgm.selected_parent_ids)
       \/ dgm.children_generated_this_iteration >= dgm.num_children_per_iteration_
    /\ dgm' = [dgm EXCEPT !.current_iteration_ = @ + 1, !.pc = "loop"]
    /\ UNCHANGED <<shared, config, next_iot_override_, last_perf_record_,
                   last_jit_compiled_kernel_, jit_io, pc, locals, outcome, history_vars>>

\* current_iteration_ has passed max_iterations_: the loop is left
DgmExit ==
    /\ dgm.pc = "loop"
    /\ dgm.current_iteration_ > dgm.max_iterations_
    /\ dgm' = [dgm EXCEPT !.pc = "completed"]
    /\ UNCHANGED <<shared, config, next_iot_override_, last_perf_record_,
                   last_jit_compiled_kernel_, jit_io, pc, locals, outcome, history_vars>>

NextDgm == DgmRun \/ DgmSelect \/ DgmChild \/ DgmEndIteration \/ DgmExit

\* a DGMController constructed and run once, as test_dgm_loop drives it
SpecDgm == InitDgm /\ [][NextDgm]_vars

\* the loop is single-threaded code that keeps running once entered
FairSpecDgm == SpecDgm /\ WF_vars(NextDgm)

\* ------------------------- the LearningContext of execute_task built on its own

\* steps 2 to 4 of execute_task up to the LearningContext, the execution left
\* out: the candidates of the context, the choice, the context of the choice
CallBuildLearningContext(ctx, wants_to_explore) ==
    /\ pc = "idle"
    /\ determine_optimal_path(hw_profile_, use_llm_for_paths_, ctx) # {}
    /\ context' = ctx
    /\ \E plans \in determine_optimal_path(hw_profile_, use_llm_for_paths_, ctx) :
           /\ candidate_plans' = plans
           /\ explore' = wants_to_explore
           /\ chosen_plan' = choose_plan(plans, wants_to_explore).plan
           /\ explored' = choose_plan(plans, wants_to_explore).explored
           /\ learning_ctx' = build_learning_context(chosen_plan', explored', ctx.task_type)
    /\ UNCHANGED <<shared, config, next_iot_override_, last_perf_record_,
                   last_jit_compiled_kernel_, jit_io, dgm, pc, task, outcome, history_vars>>

NextLearningContext ==
    \E ctx \in PredictContexts : \E wants_to_explore \in BOOLEAN :
        CallBuildLearningContext(ctx, wants_to_explore)

SpecLearningContext == Init /\ [][NextLearningContext]_vars

\* ------------------------------------------------------------ properties

\* how execute_task stands: a plan has been chosen for the task in hand
PlanChosen ==
    \/ pc \in {"act", "learn", "record"}
    \/ pc = "done" /\ outcome \in {"Completed", "KernelMissing", "JITPrecondition"}

\* the step i of the plan cannot run on the library lib
StepCannotRun(plan, lib, i) ==
    \/ /\ plan.steps[i] \notin {"JIT_COMPILE_SAXPY", "EXECUTE_JIT_SAXPY"}
       /\ plan.steps[i] \notin lib
    \/ /\ plan.steps[i] = "EXECUTE_JIT_SAXPY"
       /\ \A j \in 1..(i - 1) : plan.steps[j] # "JIT_COMPILE_SAXPY"

\* C1: a task that fails validation, or for which the Orchestrator has no
\* candidate plan, is aborted: it reaches no pillar beyond the one that turned
\* it down, and the three HardwareProfile maps, the KernelRegistry, the plan
\* history and the counter are what they were when the call began.
C1_AbortedTaskChangesNothing ==
    /\ (pc \notin {"idle", "submit"} /\ ~validate_task(task)) =>
           /\ pc = "done"
           /\ outcome = "TaskRejected"
           /\ stages = << >>
           /\ Snapshot = entry
    /\ (pc = "done" /\ outcome = "NoCandidatePlan") =>
           /\ stages = <<"Profile", "Predict">>
           /\ Snapshot = entry

C1_Witness ==
    /\ pc = "done"
    /\ outcome = "NoCandidatePlan"
    /\ task.task_type = "USER_DEFINED_KERNEL"
    /\ validate_task(task)

\* C2: when a step of the chosen plan cannot run (its kernel is not
\* registered, or it is EXECUTE_JIT_SAXPY with no kernel staged), the call ends
\* with the failure, learn_from_feedback and record_executed_plan are not
\* invoked, and HardwareProfile, plan history and counter are unchanged,
\* whichever step failed.
C2_FailedExecutionSkipsLearnAndRecord ==
    (pc = "done" /\ chosen_plan # NoPlan
     /\ \E i \in 1..Len(chosen_plan.steps) : StepCannotRun(chosen_plan, entry.lib, i)) =>
        /\ outcome \in {"KernelMissing", "JITPrecondition"}
        /\ stages = <<"Profile", "Predict", "Execute">>
        /\ hw_profile_ = entry.hw
        /\ plan_history_ = entry.plan_history
        /\ task_execution_counter_ = entry.task_execution_counter

\* the FFT plan fails at its second step, after FFT_FORWARD has run
C2_Witness ==
    /\ pc = "done"
    /\ outcome = "KernelMissing"
    /\ chosen_plan.steps = <<"FFT_FORWARD", "ELEMENT_WISE_MULTIPLY", "FFT_INVERSE">>
    /\ stages = <<"Profile", "Predict", "Execute">>

\* a step that is one call of learn_from_feedback, its arguments in learn_call'
LearnStep == learn_count' = learn_count + 1

\* C3: after any sequence of learn_from_feedback calls (predicted >= 0,
\* observed >= 0, the blame flow included) and fused-kernel installs, every
\* base operational cost and every transform cost is at least 1.0 and every
\* sensitivity is at least 0.
C3_BeliefsStayInRange ==
    /\ \A k \in DOMAIN hw_profile_.base_operational_costs :
           hw_profile_.base_operational_costs[k] >= SCALE
    /\ \A k \in DOMAIN hw_profile_.transform_costs :
           hw_profile_.transform_costs[k] >= SCALE
    /\ \A k \in DOMAIN hw_profile_.flux_sensitivities :
           hw_profile_.flux_sensitivities[k] >= 0

\* C4: a call with predicted > 0 and |observed - predicted| / predicted at or
\* above the threshold updates every key of the LearningContext that its map
\* holds: the transform cost becomes max(1, cost + (observed - predicted) * LR),
\* the base cost max(1, base + base * d * LR_base), the sensitivity
\* max(0, lambda * (1 + d * LR)); all three may change in one call and every
\* other entry keeps its value.
C4_QuarkUpdatesEveryPresentKey ==
    [][ ( /\ LearnStep
          /\ learn_call'.predicted > 0
          /\ Abs(learn_call'.observed - learn_call'.predicted) * SCALE
                 >= QUARK_THRESHOLD * learn_call'.predicted ) =>
        LET c == learn_call'.ctx
            p == learn_call'.predicted
            o == learn_call'.observed
            d == Div((o - p) * SCALE, p)
            tc == hw_profile_.transform_costs
            bc == hw_profile_.base_operational_costs
            fs == hw_profile_.flux_sensitivities
        IN /\ hw_profile_'.transform_costs =
                  [ k \in DOMAIN tc |->
                      IF k = c.transform_key
                      THEN Max(SCALE, tc[k] + Div((o - p) * LEARNING_RATE, SCALE))
                      ELSE tc[k] ]
           /\ hw_profile_'.base_operational_costs =
                  [ k \in DOMAIN bc |->
                      IF k = c.main_operation_name
                      THEN Max(SCALE, bc[k] + Div(Div(bc[k] * d, SCALE)
                                                  * LEARNING_RATE_BASE_COST, SCALE))
                      ELSE bc[k] ]
           /\ hw_profile_'.flux_sensitivities =
                  [ k \in DOMAIN fs |->
                      IF k = c.operation_key
                      THEN Max(0, Div(fs[k] * (SCALE + Div(d * LEARNING_RATE, SCALE)), SCALE))
                      ELSE fs[k] ] ]_vars

\* a call that changed a transform cost, a base cost and a sensitivity at once
C4_Witness ==
    /\ learn_count > 0
    /\ learn_call.predicted = 100 * SCALE
    /\ learn_call.observed = 115 * SCALE
    /\ learn_call.ctx.transform_key = "FFT_FORWARD"
    /\ hw_profile_.transform_costs["FFT_FORWARD"] # InitialBeliefs.transform_costs["FFT_FORWARD"]
    /\ hw_profile_.base_operational_costs["CONV_DIRECT"]
           # InitialBeliefs.base_operational_costs["CONV_DIRECT"]
    /\ hw_profile_.flux_sensitivities["lambda_Conv_Amp"]
           # InitialBeliefs.flux_sensitivities["lambda_Conv_Amp"]

\* C5: learn_from_feedback leaves the three maps as they are when predicted
\* and observed are both 0, and when predicted > 0 and
\* |observed - predicted| / predicted is below 0.15.
C5_StableFeedbackChangesNothing ==
    [][ ( /\ LearnStep
          /\ \/ learn_call'.predicted = 0 /\ learn_call'.observed = 0
             \/ /\ learn_call'.predicted > 0
                /\ Abs(learn_call'.observed - learn_call'.predicted) * SCALE
                       < QUARK_THRESHOLD * learn_call'.predicted ) =>
        hw_profile_' = hw_profile_ ]_vars

\* a call with a deviation of 10 percent and every key given
C5_Witness ==
    /\ learn_count > 0
    /\ learn_call.predicted = 100 * SCALE
    /\ learn_call.observed = 110 * SCALE
    /\ learn_call.ctx.transform_key = "FFT_FORWARD"
    /\ learn_call.ctx.main_operation_name = "CONV_DIRECT"
    /\ learn_call.ctx.operation_key = "lambda_Conv_Amp"

\* C6: in the blame flow (predicted = 0, observed > 0) a LearningContext that
\* gives a transform key has that transform entry set to exactly observed and
\* no sensitivity changed; only a context that gives no transform key and
\* gives a sensitivity key has lambda become max(lambda, 0.01) + observed * LR;
\* no base cost changes.
C6_BlameFlow ==
    [][ ( /\ LearnStep
          /\ learn_call'.predicted = 0
          /\ learn_call'.observed > 0 ) =>
        LET c == learn_call'.ctx
            o == learn_call'.observed
            tc == hw_profile_.transform_costs
            fs == hw_profile_.flux_sensitivities
        IN /\ hw_profile_'.base_operational_costs = hw_profile_.base_operational_costs
           /\ IF c.transform_key # ""
              THEN /\ hw_profile_'.transform_costs =
                          [ k \in DOMAIN tc |-> IF k = c.transform_key THEN o ELSE tc[k] ]
                   /\ hw_profile_'.flux_sensitivities = fs
              ELSE /\ hw_profile_'.transform_costs = tc
                   /\ hw_profile_'.flux_sensitivities =
                          [ k \in DOMAIN fs |->
                              IF k = c.operation_key
                              THEN Max(fs[k], 1) + Div(o * LEARNING_RATE, SCALE)
                              ELSE fs[k] ] ]_vars

\* C7: a task that runs to completion passes Profile (Cortex), Predict
\* (Orchestrator), Execute (Cerebellum), Learn (FeedbackLoop) and Record
\* (TaskGraphOrchestrator) once each and in that order, and the
\* HardwareProfile is what it was at the call until the execution has
\* produced the task's performance record.
C7_StagesRunOnceInOrder ==
    /\ (pc = "done" /\ outcome = "Completed") =>
           stages = <<"Profile", "Predict", "Execute", "Learn", "Record">>
    /\ (pc # "idle" /\ \A i \in 1..Len(stages) : stages[i] # "Execute") =>
           hw_profile_ = entry.hw

\* a completed task whose learning step changed the HardwareProfile
C7_Witness ==
    /\ pc = "done"
    /\ outcome = "Completed"
    /\ hw_profile_ # entry.hw

\* C8: with the exploration rate forced to 1.0 and at least two candidates
\* the plan executed, learned from and recorded is the second of the sorted
\* list; with the rate forced to 0.0 it is the first.
C8_ForcedRatePicksThePlan ==
    PlanChosen =>
        /\ (exploration_rate_ = SCALE /\ Len(candidate_plans) >= 2) =>
               chosen_plan = candidate_plans[2]
        /\ exploration_rate_ = 0 => chosen_plan = candidate_plans[1]
        /\ (outcome = "Completed" /\ exploration_rate_ \in {0, SCALE}) =>
               /\ plan_history_[Len(plan_history_)] = chosen_plan
               /\ learn_call.predicted = chosen_plan.predicted_holistic_flux
               /\ learn_call.observed = last_perf_record_.observed_holistic_flux

\* a completed task that ran the second, strictly dearer plan under rate 1.0
C8_Witness ==
    /\ pc = "done"
    /\ outcome = "Completed"
    /\ exploration_rate_ = SCALE
    /\ chosen_plan = candidate_plans[2]
    /\ candidate_plans[1].predicted_holistic_flux < candidate_plans[2].predicted_holistic_flux

\* C9: the path name of the LearningContext handed to learn_from_feedback
\* carries the marker "(Exploratory)" exactly when should_explore returned
\* true and the candidate list held at least two plans.
C9_ExploratoryMarker ==
    (pc = "record" \/ (pc = "done" /\ outcome = "Completed")) =>
        /\ learn_call.ctx = learning_ctx
        /\ Contains(learning_ctx.path_name, "(Exploratory)")
               <=> (explore /\ Len(candidate_plans) >= 2)

\* a task learned from under the default rate with the marker on its path name
C9_Witness ==
    /\ pc = "record"
    /\ explore
    /\ exploration_rate_ = DEFAULT_EXPLORATION_RATE
    /\ learning_ctx.path_name = "JIT Compiled SAXPY (Exploratory)"

\* the name and steps of every plan of a list, with how often each occurs
PlanShapes(plans) ==
    { [chosen_path_name |-> plans[i].chosen_path_name, steps |-> plans[i].steps] :
        i \in 1..Len(plans) }

RecordStep == Len(plan_history_') = Len(plan_history_) + 1

\* the step lists of the recorded plans, oldest first
StepsOf(history) == [ i \in 1..Len(history) |-> history[i].steps ]

\* the ordered pairs of adjacent steps of the recorded plans
AdjacentPairs(history) ==
    UNION { { <<history[p].steps[i], history[p].steps[i + 1]>> :
                i \in 1..(Len(history[p].steps) - 1) } : p \in 1..Len(history) }

\* how often the pair occurs as adjacent steps of the step list
Occurrences(steps, pair) ==
    Cardinality({ i \in 1..(Len(steps) - 1) : <<steps[i], steps[i + 1]>> = pair })

\* base cost of an operand of a fusion, 100.0 when it has none
OperandCost(base, name) == IF name \in DOMAIN base THEN base[name] ELSE 100 * SCALE

\* C11: a kernel installed by a record call is FUSED_a_b for an adjacent pair
\* (a, b) of the history and its base cost is 0.8 * (baseCost[a] + baseCost[b])
\* with the values held before the call, 100.0 standing in for an operand
\* without entry; with threshold 2 and interval 3, the third record of
\* [GEMM_NAIVE, SAXPY_STANDARD], [CONV_DIRECT], [GEMM_NAIVE, SAXPY_STANDARD]
\* from the initial seed installs FUSED_GEMM_NAIVE_SAXPY_STANDARD with cost 480.
C11_FusedCost ==
    [][ RecordStep =>
        LET base == hw_profile_.base_operational_costs
            base_after == hw_profile_'.base_operational_costs
        IN /\ \A K \in kernel_lib_' \ kernel_lib_ :
                  /\ K \in DOMAIN base_after
                  /\ \E pr \in AdjacentPairs(plan_history_') :
                         /\ K = "FUSED_" \o pr[1] \o "_" \o pr[2]
                         /\ base_after[K] * 10
                                \in { 8 * (OperandCost(base, pr[1]) + OperandCost(base, pr[2])) - r :
                                        r \in 0..9 }
           /\ ( /\ fusion_candidate_threshold_ = 2
                /\ analysis_interval_ = 3
                /\ task_execution_counter_' = 3
                /\ hw_profile_ = InitialBeliefs
                /\ kernel_lib_ = InitialKernels
                /\ StepsOf(plan_history_') = << <<"GEMM_NAIVE", "SAXPY_STANDARD">>,
                                               <<"CONV_DIRECT">>,
                                               <<"GEMM_NAIVE", "SAXPY_STANDARD">> >> ) =>
                  /\ kernel_lib_' = InitialKernels \cup {"FUSED_GEMM_NAIVE_SAXPY_STANDARD"}
                  /\ base_after["FUSED_GEMM_NAIVE_SAXPY_STANDARD"] = 480 * SCALE ]_vars

\* the end-to-end scenario, right after its third record
C11_Witness ==
    /\ fusion_candidate_threshold_ = 2
    /\ analysis_interval_ = 3
    /\ task_execution_counter_ = 3
    /\ StepsOf(plan_history_) = << <<"GEMM_NAIVE", "SAXPY_STANDARD">>,
                                  <<"CONV_DIRECT">>,
                                  <<"GEMM_NAIVE", "SAXPY_STANDARD">> >>
    /\ "FUSED_GEMM_NAIVE_SAXPY_STANDARD" \in kernel_lib_
    /\ hw_profile_.base_operational_costs["FUSED_GEMM_NAIVE_SAXPY_STANDARD"] = 480 * SCALE

\* the history is N >= 1 records of one and the same plan
SamePlanRecorded(history) ==
    /\ history # << >>
    /\ \A i \in 1..Len(history) : history[i] = history[1]

\* C12 as stated: a record call that leaves the history as N records of one
\* plan P, N below the fusion threshold, does not modify the KernelRegistry,
\* whatever the step list of P and the analysis interval.
C12_BelowThresholdNeverFuses ==
    [][ ( /\ RecordStep
          /\ SamePlanRecorded(plan_history_')
          /\ Len(plan_history_') < fusion_candidate_threshold_ ) =>
        kernel_lib_' = kernel_lib_ ]_vars

\* C12 amended: a record call that leaves the history as N records of one
\* plan P does not modify the KernelRegistry when every adjacent pair of P
\* occurs fewer than threshold times in the N records together, a pair that
\* occurs k times in P counting k times per record.
C12_BelowThresholdOccurrencesNeverFuse ==
    [][ ( /\ RecordStep
          /\ SamePlanRecorded(plan_history_')
          /\ \A pr \in AdjacentPairs(plan_history_') :
                 Len(plan_history_') * Occurrences(plan_history_'[1].steps, pr)
                     < fusion_candidate_threshold_ ) =>
        kernel_lib_' = kernel_lib_ ]_vars

\* one record of a two-step plan analysed under threshold 2: nothing fused
C12_Witness ==
    /\ fusion_candidate_threshold_ = 2
    /\ analysis_interval_ = 1
    /\ task_execution_counter_ = 1
    /\ StepsOf(plan_history_) = << <<"GEMM_NAIVE", "SAXPY_STANDARD">> >>
    /\ kernel_lib_ = InitialKernels

\* how often the pair occurs as adjacent steps in the whole history
HistoryOccurrences(history, pair) ==
    Cardinality({ pl \in UNION { { <<p, i>> : i \in 1..(Len(history[p].steps) - 1) } :
                                 p \in 1..Len(history) } :
                    <<history[pl[1]].steps[pl[2]], history[pl[1]].steps[pl[2] + 1]>> = pair })

\* the record call runs the periodic analysis
AnalysisStep ==
    /\ RecordStep
    /\ task_execution_counter_' % analysis_interval_ = 0

\* C13: an analysis in which a pair (a, b) meets the threshold again while
\* FUSED_a_b is already in the registry keeps the registry entry and leaves
\* baseCost[FUSED_a_b] as it was, whatever baseCost[a] and baseCost[b] are now.
C13_FusionIdempotent ==
    [][ AnalysisStep =>
        \A pr \in AdjacentPairs(plan_history_') :
            LET K == "FUSED_" \o pr[1] \o "_" \o pr[2]
            IN ( /\ HistoryOccurrences(plan_history_', pr) >= fusion_candidate_threshold_
                 /\ K \in kernel_lib_ ) =>
                   /\ K \in kernel_lib_'
                   /\ K \in DOMAIN hw_profile_'.base_operational_costs
                   /\ hw_profile_'.base_operational_costs[K] =
                          hw_profile_.base_operational_costs[K] ]_vars

\* three records of the pair, the fused kernel priced from the seed costs,
\* the cost of GEMM_NAIVE changed by feedback before the last analysis
C13_Witness ==
    /\ StepsOf(plan_history_) = << <<"GEMM_NAIVE", "SAXPY_STANDARD">>,
                                   <<"GEMM_NAIVE", "SAXPY_STANDARD">>,
                                   <<"GEMM_NAIVE", "SAXPY_STANDARD">> >>
    /\ task_execution_counter_ = 3
    /\ learn_count = 1
    /\ hw_profile_.base_operational_costs["GEMM_NAIVE"] #
           InitialBeliefs.base_operational_costs["GEMM_NAIVE"]
    /\ "FUSED_GEMM_NAIVE_SAXPY_STANDARD" \in kernel_lib_
    /\ hw_profile_.base_operational_costs["FUSED_GEMM_NAIVE_SAXPY_STANDARD"] = 480 * SCALE

\* the names a fusion added to the registry and to the base costs
FusedKernels == kernel_lib_ \ InitialKernels
FusedCosts ==
    DOMAIN hw_profile_.base_operational_costs
        \ DOMAIN InitialBeliefs.base_operational_costs

\* every fused name of the registry has its base cost and the reverse, one
\* entry each, and comes from an adjacent pair of the history
FusedEntriesAgree ==
    /\ FusedKernels = FusedCosts
    /\ \A K \in FusedKernels :
           /\ Cardinality({ k \in kernel_lib_ : k = K }) = 1
           /\ Cardinality({ k \in DOMAIN hw_profile_.base_operational_costs : k = K }) = 1
           /\ \E pr \in AdjacentPairs(plan_history_) : K = "FUSED_" \o pr[1] \o "_" \o pr[2]

\* C14: after every record call the fused names in the registry are exactly
\* the names that got a base cost, one registry entry and one cost entry each
\* however often the pair was recorded, and every pair fused by the analysis of
\* the call (two different names with base costs, met the threshold) has its
\* fused name in the registry and in the base costs.
C14_FusedKernelHasBothEntries ==
    [][ RecordStep =>
        /\ FusedEntriesAgree'
        /\ AnalysisStep =>
             \A pr \in AdjacentPairs(plan_history_') :
                 ( /\ pr[1] # pr[2]
                   /\ pr[1] \in DOMAIN hw_profile_.base_operational_costs
                   /\ pr[2] \in DOMAIN hw_profile_.base_operational_costs
                   /\ HistoryOccurrences(plan_history_', pr) >= fusion_candidate_threshold_ ) =>
                     /\ "FUSED_" \o pr[1] \o "_" \o pr[2] \in kernel_lib_'
                     /\ "FUSED_" \o pr[1] \o "_" \o pr[2]
                            \in DOMAIN hw_profile_'.base_operational_costs ]_vars

\* the pair recorded three times, fused once
C14_Witness ==
    /\ Len(plan_history_) = 3
    /\ HistoryOccurrences(plan_history_, <<"GEMM_NAIVE", "SAXPY_STANDARD">>) >= 3
    /\ FusedKernels = {"FUSED_GEMM_NAIVE_SAXPY_STANDARD"}
    /\ FusedCosts = {"FUSED_GEMM_NAIVE_SAXPY_STANDARD"}

\* the name holds the marker of a JIT or execute meta-step
IsMetaStep(name) == Contains(name, "JIT_") \/ Contains(name, "EXECUTE_")

\* C15: a fused kernel in the registry comes from an adjacent pair of the
\* history whose two names differ, are both keys of the base costs and are
\* neither a JIT_* nor an EXECUTE_* meta-step; recording the FFT convolution
\* plan never installs FUSED_FFT_FORWARD_ELEMENT_WISE_MULTIPLY, FFT_FORWARD
\* having no base cost.
C15_OnlyCostedOperationalPairsFuse ==
    /\ \A K \in FusedKernels :
           \E pr \in AdjacentPairs(plan_history_) :
               /\ K = "FUSED_" \o pr[1] \o "_" \o pr[2]
               /\ pr[1] # pr[2]
               /\ pr[1] \in DOMAIN hw_profile_.base_operational_costs
               /\ pr[2] \in DOMAIN hw_profile_.base_operational_costs
               /\ ~IsMetaStep(pr[1])
               /\ ~IsMetaStep(pr[2])
    /\ "FUSED_FFT_FORWARD_ELEMENT_WISE_MULTIPLY" \notin kernel_lib_

\* C16: two different adjacent pairs of the history never have the same fused
\* name, so no two of them share one registry and base cost entry.
C16_FusedNameUnique ==
    \A p1 \in AdjacentPairs(plan_history_) :
        \A p2 \in AdjacentPairs(plan_history_) :
            ( /\ p1 # p2
              /\ "FUSED_" \o p1[1] \o "_" \o p1[2] \in kernel_lib_ ) =>
                "FUSED_" \o p1[1] \o "_" \o p1[2] # "FUSED_" \o p2[1] \o "_" \o p2[2]

\* the three faults validation is to reject: no operation name, a kernel
\* payload that does not fit its kind, elements to write and no output buffer
MustBeRejected(t) ==
    \/ t.task_type = ""
    \/ t.kernel_type = "FUNCTION_POINTER" /\ ~t.kernel_set
    \/ t.kernel_type = "WASM_BINARY" /\ (~t.kernel_set \/ t.kernel_size = 0)
    \/ t.num_elements > 0 /\ ~t.data_out

\* C17: a task with an empty operation name, a kernel payload inconsistent
\* with its kind, or a positive element count and a null output buffer, of
\* either kernel kind, is rejected at validation: the call ends as TaskRejected
\* with no stage run.
C17_ValidationRejects ==
    ( /\ pc \notin {"idle", "submit"}
      /\ MustBeRejected(task) ) =>
        /\ pc = "done"
        /\ outcome = "TaskRejected"
        /\ stages = << >>

\* the chosen plan ran a registered kernel on the task although input A is
\* null with elements to process
KernelRanOnNullBuffer ==
    /\ pc \in {"learn", "record", "done"}
    /\ \E i \in 1..Len(stages) : stages[i] = "Execute"
    /\ task.num_elements > 0
    /\ ~task.data_in_a.ptr
    /\ \E i \in 1..Len(chosen_plan.steps) :
           /\ chosen_plan.steps[i] \in {"SAXPY_STANDARD", "GEMM_NAIVE", "FFT_FORWARD"}
           /\ \A j \in 1..i : ~StepCannotRun(chosen_plan, kernel_lib_, j)

\* C18: a task whose chosen plan reaches a kernel with a null task buffer is
\* aborted with an error: nothing is learned, the HardwareProfile stays as it
\* was at entry and the plan is not recorded.
C18_NullBufferAborts ==
    KernelRanOnNullBuffer =>
        /\ pc = "done"
        /\ outcome \notin {"", "Completed"}
        /\ \A i \in 1..Len(stages) : stages[i] \notin {"Learn", "Record"}
        /\ hw_profile_ = entry.hw
        /\ plan_history_ = entry.plan_history

\* the call is the first one, on the initial seed, of a CONVOLUTION task over
\* the spiky signal, profiled with the default sensor readings
FirstSpikyConvolution ==
    /\ tasks_begun = 1
    /\ entry.hw = InitialBeliefs
    /\ hw_profile_ = InitialBeliefs
    /\ ~use_llm_for_paths_
    /\ task.task_type = "CONVOLUTION"
    /\ task.data_in_a = Buffer(Spiky)
    /\ task.num_elements = 10
    /\ \A f \in DOMAIN DefaultIot : context.profile[f] = DefaultIot[f]

\* C19: for the first CONVOLUTION task from the initial seed in the default
\* environment over the spiky signal, the list Predict returns starts with the
\* FFT-based plan, the direct plan being predicted dearer.
C19_SpikyConvolutionPicksFFT ==
    ( /\ pc = "choose"
      /\ FirstSpikyConvolution ) =>
        /\ candidate_plans[1].chosen_path_name = "Frequency Domain (FFT)"
        /\ \E i \in 2..Len(candidate_plans) :
               /\ candidate_plans[i].steps = <<"CONV_DIRECT">>
               /\ candidate_plans[i].predicted_holistic_flux >
                      candidate_plans[1].predicted_holistic_flux

\* C20: when the call that chose the FFT-based convolution plan on the initial
\* seed is over, the transform cost at key TRANSFORM_TIME_TO_FREQ is strictly
\* below its value at entry.
C20_FFTTransformCostDrops ==
    ( /\ pc = "done"
      /\ PlanChosen
      /\ entry.hw = InitialBeliefs
      /\ chosen_plan.chosen_path_name = "Frequency Domain (FFT)" ) =>
        /\ Has(entry.hw.transform_costs, "TRANSFORM_TIME_TO_FREQ")
        /\ Has(hw_profile_.transform_costs, "TRANSFORM_TIME_TO_FREQ")
        /\ hw_profile_.transform_costs["TRANSFORM_TIME_TO_FREQ"] <
               entry.hw.transform_costs["TRANSFORM_TIME_TO_FREQ"]

\* the value at the key, 0 when the map has no such key
ValueOrZero(m, key) == IF key \in DOMAIN m THEN m[key] ELSE 0

\* the dynamic term of a step as documented, each missing lambda counting 0
DocumentedDynamicTerm(hw, op, profile) ==
    LET s == hw.flux_sensitivities IN
    CASE op = "CONV_DIRECT" ->
           Mul(profile.amplitude_flux, ValueOrZero(s, "lambda_Conv_Amp"))
           + Mul(profile.frequency_flux, ValueOrZero(s, "lambda_Conv_Freq"))
      [] op \in {"GEMM_NAIVE", "GEMM_FLUX_ADAPTIVE"} ->
           Mul(SCALE - profile.sparsity_ratio, ValueOrZero(s, "lambda_Sparsity"))
      [] op = "SAXPY_STANDARD" ->
           Mul(profile.amplitude_flux, ValueOrZero(s, "lambda_SAXPY_generic"))
      [] op = "EXECUTE_JIT_SAXPY" ->
           Mul(Mul(profile.amplitude_flux, ValueOrZero(s, "lambda_SAXPY_generic")),
               SCALE \div 2)
      [] OTHER -> 0

\* the documented subtotal of a step list
RECURSIVE DocumentedSubtotal(_, _, _)
DocumentedSubtotal(hw, steps, profile) ==
    IF steps = << >> THEN 0
    ELSE ValueOrZero(hw.transform_costs, Head(steps))
         + ( IF Head(steps) \in DOMAIN hw.base_operational_costs
             THEN hw.base_operational_costs[Head(steps)]
                  + DocumentedDynamicTerm(hw, Head(steps), profile)
             ELSE 0 )
         + DocumentedSubtotal(hw, Tail(steps), profile)

\* C21: the prediction of every plan the Orchestrator returns is built on the
\* subtotal that sums, per step, the transform cost (0 if absent) and, for a
\* step with a base cost, that cost plus the dynamic term in which each
\* missing lambda on its own counts 0 (for CONV_DIRECT with only
\* lambda_Conv_Freq absent: amplitude flux times lambda_Conv_Amp).
C21_PredictedSubtotal ==
    \A i \in 1..Len(candidate_plans) :
        candidate_plans[i].predicted_holistic_flux =
            Mul(DocumentedSubtotal(hw_profile_, candidate_plans[i].steps, context.profile),
                cost_multiplier(candidate_plans[i].steps, context.profile))

\* C22: with the LLM strategy enabled or not, the Predict step of a call
\* returns a sorted list of exactly the built-in table's candidates for the
\* task type (and ends the call when the table has none), and a step that
\* toggles the strategy leaves the HardwareProfile as it was.
C22_LlmStrategyFallsBack ==
    [][ /\ use_llm_for_paths_' # use_llm_for_paths_ => hw_profile_' = hw_profile_
        /\ (pc = "decide" /\ pc' # "decide") =>
             IF generate_candidate_paths(context.task_type) = << >>
             THEN pc' = "done" /\ outcome' = "NoCandidatePlan"
             ELSE /\ pc' = "choose"
                  /\ candidate_plans' \in
                         sorted_by_flux(simulated(hw_profile_,
                                                  generate_candidate_paths(context.task_type),
                                                  context.profile)) ]_vars

\* a Predict step that ran with the strategy enabled returned two plans
C22_Witness ==
    /\ pc = "choose"
    /\ use_llm_for_paths_
    /\ Len(candidate_plans) = 2

\* C23: a call for an accepted CONVOLUTION, GEMM or SAXPY task that chose a
\* plan of the built-in table on the initial registry runs it to completion:
\* every non-JIT step names a registered kernel, and the call reaches Learn
\* and Record instead of ending with KernelMissing.
C23_BuiltInPlansRun ==
    ( /\ pc = "done"
      /\ PlanChosen
      /\ task.task_type \in {"CONVOLUTION", "GEMM", "SAXPY"}
      /\ entry.lib = InitialKernels ) =>
        /\ \A i \in 1..Len(chosen_plan.steps) :
               chosen_plan.steps[i] \notin {"JIT_COMPILE_SAXPY", "EXECUTE_JIT_SAXPY"} =>
                   chosen_plan.steps[i] \in InitialKernels
        /\ outcome = "Completed"
        /\ stages = <<"Profile", "Predict", "Execute", "Learn", "Record">>

\* the six environmental fields of a profile
EnvironmentOf(profile) == [ f \in DOMAIN DefaultIot |-> profile[f] ]

\* power 75.5, temperature 65.2, latency 15.3, bandwidth 980, I/O 250, quality 0.95
DocumentedDefaults ==
    [ power_draw_watts |-> 7550, temperature_celsius |-> 6520,
      network_latency_ms |-> 1530, network_bandwidth_mbps |-> 98000,
      io_throughput_mbps |-> 25000, data_quality_score |-> 95 ]

ProfileAfterLearning ==
    learn_from_feedback(entry.hw, learn_call.ctx, learn_call.predicted, learn_call.observed)

\* C26: Feedback's update for one task is atomic towards a task dispatched
\* concurrently: whatever the other task's Orchestrator reads is a prediction
\* on the profile as it was before the update or as it is after all of its
\* keys were written, never on one with only some of them written.
C26_FeedbackUpdateAtomic ==
    [][ (context' # context \/ candidate_plans' # candidate_plans) =>
        candidate_plans' \in
            determine_optimal_path(entry.hw, use_llm_for_paths_, context')
                \cup determine_optimal_path(ProfileAfterLearning, use_llm_for_paths_,
                                            context') ]_vars

\* the history holds at most bound plans, and they are the latest ones recorded
HistoryIsRing(bound) ==
    /\ Len(plan_history_) <= bound
    /\ task_execution_counter_ > bound => Len(plan_history_) = bound

\* C27: the plan history is a bounded ring; configured to hold two plans, it
\* never holds more than two after any number of record calls, the oldest
\* plan being dropped on overflow.
C27_HistoryIsBoundedRing == HistoryIsRing(2)

\* a call of Cerebellum::execute was made in the step
ExecuteStep == Len(stages') = Len(stages) + 1

\* step i of the plan is an EXECUTE_JIT_SAXPY with no JIT_COMPILE_SAXPY before it
ExecuteWithoutCompile(plan, i) ==
    /\ plan.steps[i] = "EXECUTE_JIT_SAXPY"
    /\ \A j \in 1..(i - 1) : plan.steps[j] # "JIT_COMPILE_SAXPY"

\* C28: an execution completes only when each of its EXECUTE_JIT_SAXPY steps
\* comes after a JIT_COMPILE_SAXPY step of the same plan; an execution that
\* reaches an EXECUTE_JIT_SAXPY step with no such step before it fails with
\* the JIT precondition error, even when the previous execution left a
\* kernel staged.
C28_StagedKernelLivesOneExecution ==
    [][ ExecuteStep =>
        /\ outcome' = "Completed" =>
             \A i \in 1..Len(chosen_plan'.steps) : ~ExecuteWithoutCompile(chosen_plan', i)
        /\ ( \E i \in 1..Len(chosen_plan'.steps) :
                 /\ ExecuteWithoutCompile(chosen_plan', i)
                 /\ \A j \in 1..(i - 1) : chosen_plan'.steps[j] \in kernel_lib_ ) =>
               /\ outcome' = "JITPrecondition"
               /\ last_perf_record_' = last_perf_record_ ]_vars

\* an execution that staged a kernel, then one that found none staged
C28_Witness ==
    /\ stages = <<"ExecuteStaged", "Execute">>
    /\ chosen_plan.steps = <<"EXECUTE_JIT_SAXPY">>
    /\ outcome = "JITPrecondition"
    /\ ~last_jit_compiled_kernel_

\* the FluxReport the step loop adds for one step of a plan
StepFluxReport(op, t, h) ==
    IF op = "JIT_COMPILE_SAXPY" THEN ZeroReport
    ELSE IF op = "EXECUTE_JIT_SAXPY" THEN jit_kernel_report(t, h)
    ELSE kernel_report(op, t, h)

\* the sum of one field over the first n reports
RECURSIVE SumOfField(_, _, _)
SumOfField(reports, field, n) ==
    IF n = 0 THEN 0 ELSE SumOfField(reports, field, n - 1) + reports[n][field]

\* C30: the record of a completed plan execution carries, for the cycle, HW-in
\* and HW-out costs, the sums of the FluxReports of the plan's steps, a
\* JIT_COMPILE_SAXPY step adding nothing, and its holistic flux is the sum of
\* the three.
C30_RecordSumsStepReports ==
    [][ (ExecuteStep /\ outcome' = "Completed") =>
        \E hs \in [1..Len(chosen_plan'.steps) -> HammingCosts] :
            LET n == Len(chosen_plan'.steps)
                reports == [i \in 1..n |->
                               StepFluxReport(chosen_plan'.steps[i], task', hs[i])]
                rec == last_perf_record_'
            IN /\ rec.observed_cycle_cost = SumOfField(reports, "cycle_cost", n)
               /\ rec.observed_hw_in_cost = SumOfField(reports, "hw_in_cost", n)
               /\ rec.observed_hw_out_cost = SumOfField(reports, "hw_out_cost", n)
               /\ rec.observed_holistic_flux =
                      (rec.observed_cycle_cost + rec.observed_hw_in_cost
                       + rec.observed_hw_out_cost) * SCALE ]_vars

\* a completed execution of the compile-then-execute plan with nonzero costs
C30_Witness ==
    /\ outcome = "Completed"
    /\ Len(stages) > 0
    /\ chosen_plan.steps = <<"JIT_COMPILE_SAXPY", "EXECUTE_JIT_SAXPY">>
    /\ last_perf_record_.observed_cycle_cost > 0
    /\ last_perf_record_.observed_hw_in_cost > 0
    /\ last_perf_record_.observed_hw_out_cost > 0

\* the step is a call of the kernel the JIT engine returned
InvokeStep ==
    /\ Len(stages') = Len(stages) + 1
    /\ stages'[Len(stages')] = "JitInvoke"

\* C29: a call of the sparse or dense JIT wrapper on buffers of N > 0
\* elements leaves a*x[i] + y[i] at every index of the output buffer, y being
\* the buffer's content before the call, and reports a cycle cost of 2*N.
C29_JitSaxpyComputesSaxpy ==
    [][ (InvokeStep /\ Len(jit_io.x) > 0) =>
        /\ \A i \in 1..Len(jit_io.x) :
               jit_io'.y[i] = fixed_a * jit_io.x[i] + jit_io.y[i]
        /\ jit_io'.report.cycle_cost = 2 * Len(jit_io.x) ]_vars

ProfileMaps == {"base_operational_costs", "transform_costs", "flux_sensitivities"}

\* C31: the HardwareProfile changes only in a step of learn_from_feedback or
\* of record_executed_plan; learn_from_feedback leaves the key set of each of
\* the three maps as it was; record_executed_plan leaves the transform costs,
\* the sensitivities and every existing base cost as they were and adds only
\* keys that begin with FUSED_.
C31_ProfileWriters ==
    [][ /\ hw_profile_' # hw_profile_ => (LearnStep \/ RecordStep)
        /\ LearnStep =>
             \A f \in ProfileMaps : DOMAIN hw_profile_'[f] = DOMAIN hw_profile_[f]
        /\ RecordStep =>
             /\ hw_profile_'.transform_costs = hw_profile_.transform_costs
             /\ hw_profile_'.flux_sensitivities = hw_profile_.flux_sensitivities
             /\ \A k \in DOMAIN hw_profile_.base_operational_costs :
                    /\ k \in DOMAIN hw_profile_'.base_operational_costs
                    /\ hw_profile_'.base_operational_costs[k]
                         = hw_profile_.base_operational_costs[k]
             /\ \A k \in DOMAIN hw_profile_'.base_operational_costs
                         \ DOMAIN hw_profile_.base_operational_costs :
                    Len(k) > 6 /\ SubSeq(k, 1, 6) = "FUSED_" ]_vars

\* a task ran to its end, learn_from_feedback changed a belief and a fusion
\* added a base cost
C31_Witness ==
    /\ outcome = "Completed"
    /\ stages = <<"Profile", "Predict", "Execute", "Learn", "Record">>
    /\ \E f \in ProfileMaps : \E k \in DOMAIN InitialBeliefs[f] :
           hw_profile_[f][k] # InitialBeliefs[f][k]
    /\ DOMAIN hw_profile_.base_operational_costs
         # DOMAIN InitialBeliefs.base_operational_costs

\* the name begins with the tag
BeginsWith(name, tag) == Len(name) >= Len(tag) /\ SubSeq(name, 1, Len(tag)) = tag

SomeStepBegins(steps, tag1, tag2) ==
    \E i \in 1..Len(steps) : BeginsWith(steps[i], tag1) \/ BeginsWith(steps[i], tag2)

\* the multiplier built from the factors whose documented condition holds
DocumentedMultiplier(steps, profile) ==
    LET temp == IF profile.temperature_celsius > 85 * SCALE THEN 150 ELSE SCALE
        power == IF profile.power_draw_watts > 100 * SCALE
                 THEN SCALE + Div((profile.power_draw_watts - 100 * SCALE) * 5, 1000)
                 ELSE SCALE
        net == IF profile.network_latency_ms > 100 * SCALE
                  /\ SomeStepBegins(steps, "NETWORK_", "REMOTE_")
               THEN 120 ELSE SCALE
        io == IF profile.io_throughput_mbps > 0 /\ profile.io_throughput_mbps < 50 * SCALE
                 /\ SomeStepBegins(steps, "DISK_", "LOAD_")
              THEN 115 ELSE SCALE
        m == Mul(Mul(Mul(temp, power), net), io)
        q == profile.data_quality_score
    IN IF q > 0 /\ q < SCALE THEN Div(m * SCALE, q)
       ELSE IF q <= 0 THEN m * 10 ELSE m

ArchiveSize == Cardinality(DOMAIN dgm.archive_)

LoopLeft == dgm.pc \in {"completed", "stopped_empty_archive", "stopped_no_parents"}

\* C33: a controller built with positive counts starts with an archive that
\* holds agent 0 alone, with no parent and the given source; once
\* run_evolutionary_loop has returned the archive holds more than one agent
\* and at most 1 + max_iterations * num_children_per_iteration, and within an
\* iteration it grows by at most num_children_per_iteration.
C33_ArchiveSizeBounds ==
    /\ dgm.pc = "constructed" =>
         /\ DOMAIN dgm.archive_ = {0}
         /\ dgm.archive_[0].agent_id = 0
         /\ dgm.archive_[0].parent_id = -1
         /\ dgm.archive_[0].source_code_representation = "Initial_VPU_Agent_Code_v0"
    /\ LoopLeft =>
         /\ ArchiveSize > 1
         /\ ArchiveSize <= 1 + dgm.max_iterations_ * dgm.num_children_per_iteration_
    /\ dgm.pc = "children" =>
         ArchiveSize - dgm.size_at_iteration_start <= dgm.num_children_per_iteration_

\* a run that ended below the upper bound
C33_Witness ==
    /\ dgm.pc = "completed"
    /\ dgm.max_iterations_ > 1
    /\ dgm.num_children_per_iteration_ > 1
    /\ ArchiveSize > 1
    /\ ArchiveSize < 1 + dgm.max_iterations_ * dgm.num_children_per_iteration_

\* C38: while run_evolutionary_loop runs and after it, the archive's ids are
\* exactly 0..size-1, each agent stored under its own id and none written
\* twice; every agent but agent 0 has a parent that is in the archive with a
\* smaller id; and each agent's children_count is the number of archived
\* agents that name it as parent.
C38_ArchiveWellFormed ==
    dgm.pc # "none" =>
        /\ DOMAIN dgm.archive_ = 0..(ArchiveSize - 1)
        /\ dgm.next_agent_id_ = ArchiveSize
        /\ \A id \in DOMAIN dgm.archive_ :
               LET agent == dgm.archive_[id] IN
               /\ agent.agent_id = id
               /\ IF id = 0 THEN agent.parent_id = -1
                  ELSE agent.parent_id \in DOMAIN dgm.archive_ /\ agent.parent_id < id
               /\ agent.children_count =
                      Cardinality({ c \in DOMAIN dgm.archive_ :
                                      dgm.archive_[c].parent_id = id })

\* inside the loop, an agent with two children and a grandchild of agent 0
C38_Witness ==
    /\ dgm.pc = "children"
    /\ \E id \in DOMAIN dgm.archive_ : dgm.archive_[id].children_count = 2
    /\ \E id \in DOMAIN dgm.archive_ : dgm.archive_[id].parent_id > 0

\* an iteration of the loop ends in the step
EndIterationStep == dgm.pc = "children" /\ dgm'.pc = "loop"

EligiblePair(pr) ==
    /\ pr[1] # pr[2]
    /\ ~IsMetaStep(pr[1]) /\ ~IsMetaStep(pr[2])
    /\ pr[1] \in DOMAIN hw_profile_.base_operational_costs
    /\ pr[2] \in DOMAIN hw_profile_.base_operational_costs

\* C34: a record that leaves the counter at a non-multiple of the analysis
\* interval changes neither the registry nor the HardwareProfile, whatever the
\* pair counts are; a record that brings it to a multiple fuses every eligible
\* pair whose count has reached the threshold; and while the history is
\* records of one two-step plan the registry gains at most one kernel and is
\* not modified again once it has it.
C34_AnalysisOnlyAtInterval ==
    [][ RecordStep =>
        /\ ~AnalysisStep =>
             /\ kernel_lib_' = kernel_lib_
             /\ hw_profile_' = hw_profile_
        /\ AnalysisStep =>
             \A pr \in AdjacentPairs(plan_history_') :
                 ( /\ EligiblePair(pr)
                   /\ HistoryOccurrences(plan_history_', pr) >= fusion_candidate_threshold_ )
                 => fused_name(pr[1], pr[2]) \in kernel_lib_'
        /\ ( SamePlanRecorded(plan_history_') /\ Len(plan_history_'[1].steps) = 2 ) =>
             /\ Cardinality(kernel_lib_' \ InitialKernels) <= 1
             /\ kernel_lib_ # InitialKernels =>
                  (kernel_lib_' = kernel_lib_ /\ hw_profile_' = hw_profile_) ]_vars

\* two records of the pair under threshold 1 and interval 3: the count has
\* passed the threshold and nothing is fused yet
C34_Witness ==
    /\ fusion_candidate_threshold_ = 1
    /\ analysis_interval_ = 3
    /\ task_execution_counter_ = 2
    /\ StepsOf(plan_history_) = << <<"GEMM_NAIVE", "SAXPY_STANDARD">>,
                                   <<"GEMM_NAIVE", "SAXPY_STANDARD">> >>
    /\ kernel_lib_ = InitialKernels
    /\ hw_profile_ = InitialBeliefs

\* the returned list holds two plans of equal predicted cost
TiedCandidates ==
    /\ Len(candidate_plans) = 2
    /\ candidate_plans[1].predicted_holistic_flux = candidate_plans[2].predicted_holistic_flux

KeysOf(c) == <<c.transform_key, c.main_operation_name, c.operation_key>>

\* the keys documented for a plan of the given path name, steps and task type
DocumentedKeys(name, steps, task_type) ==
    IF Contains(name, "FFT") THEN <<"TRANSFORM_TIME_TO_FREQ", "", "">>
    ELSE IF Contains(name, "JIT Compiled SAXPY")
    THEN <<"TRANSFORM_JIT_COMPILE_SAXPY", "EXECUTE_JIT_SAXPY", "lambda_SAXPY_generic">>
    ELSE CASE task_type = "CONVOLUTION" -> <<"", "CONV_DIRECT", "lambda_Conv_Amp">>
           [] task_type = "GEMM" -> <<"", first_gemm_step(steps), "lambda_Sparsity">>
           [] task_type = "SAXPY" -> <<"", "SAXPY_STANDARD", "lambda_SAXPY_generic">>
           [] OTHER -> <<"", "", "">>

\* C36: the LearningContext handed to learn_from_feedback has the keys of the
\* documented mapping: TRANSFORM_TIME_TO_FREQ alone for a path name holding
\* "FFT"; TRANSFORM_JIT_COMPILE_SAXPY, EXECUTE_JIT_SAXPY and
\* lambda_SAXPY_generic for "JIT Compiled SAXPY"; otherwise no transform key
\* and the pair of the task type; the same keys whether or not the path name
\* carries the exploratory marker.
C36_LearningContextKeys ==
    learning_ctx # NoLearningContext =>
        /\ KeysOf(learning_ctx) =
               DocumentedKeys(chosen_plan.chosen_path_name, chosen_plan.steps,
                              context.task_type)
        /\ learning_ctx.path_name \in { chosen_plan.chosen_path_name,
                                        chosen_plan.chosen_path_name \o " (Exploratory)" }

\* the FFT plan learned from as an exploration: the marker on the name, the
\* transform key alone
C36_Witness ==
    /\ explored
    /\ context.task_type = "CONVOLUTION"
    /\ learning_ctx.path_name = "Frequency Domain (FFT) (Exploratory)"
    /\ KeysOf(learning_ctx) = <<"TRANSFORM_TIME_TO_FREQ", "", "">>

\* C37: learn_from_feedback is called with the predicted cost of the plan the
\* Cerebellum was given, and record_executed_plan with that plan; when the
\* dispatcher explored these are the second candidate's, and the prediction
\* differs from the top candidate's whenever the two costs differ.
C37_LearnAndRecordTheExecutedPlan ==
    [][ /\ (LearnStep /\ pc = "learn") =>
             /\ learn_call'.predicted = chosen_plan.predicted_holistic_flux
             /\ explored =>
                  /\ chosen_plan = candidate_plans[2]
                  /\ learn_call'.predicted = candidate_plans[2].predicted_holistic_flux
        /\ (RecordStep /\ pc = "record") =>
             /\ plan_history_'[Len(plan_history_')] = chosen_plan
             /\ learn_call.predicted = chosen_plan.predicted_holistic_flux
             /\ explored =>
                  /\ plan_history_'[Len(plan_history_')].steps = candidate_plans[2].steps
                  /\ plan_history_'[Len(plan_history_')].predicted_holistic_flux
                         = candidate_plans[2].predicted_holistic_flux ]_vars

\* a task completed under the default rate that explored: the dearer second
\* candidate was learned from and recorded
C37_Witness ==
    /\ pc = "done"
    /\ outcome = "Completed"
    /\ explored
    /\ exploration_rate_ = DEFAULT_EXPLORATION_RATE
    /\ candidate_plans[1].predicted_holistic_flux < candidate_plans[2].predicted_holistic_flux
    /\ learn_call.predicted = candidate_plans[2].predicted_holistic_flux
    /\ plan_history_[Len(plan_history_)] = candidate_plans[2]

====
